---- MODULE Spec2Model ----
(***************************************************************************)
(* State-machine model of the graph data access layer GraphCrud            *)
(* (src/methodes/crud_methodes.py) over a labelled property graph store.   *)
(*                                                                         *)
(* Strings are sequences of character codes, so that trimming, the         *)
(* identifier pattern, back-tick quoting and sorted() are computed the way *)
(* the code computes them.  A property map is a function whose DOMAIN is   *)
(* the set of keys present in the dict.                                    *)
(***************************************************************************)
EXTENDS Integers, Sequences, FiniteSets, TLC

\* ------------------------------------------------------------------ bounds
MaxNodes == 2
MaxRels == 1
MaxLen == 3
MaxIds == 3
MaxRelIds == 2
MaxClients == 2

\* ------------------------------------------------------- character classes
Whitespace == {9, 10, 11, 12, 13, 28, 29, 30, 31, 32}
Upper == 65..90
Lower == 97..122
Digits == 48..57
Underscore == {95}
Backtick == <<96>>

\* first character class [A-Za-z_] and following class [A-Za-z0-9_]
IdentStart == Upper \cup Lower \cup Underscore
IdentPart == IdentStart \cup Digits

\* ----------------------------------------------------------------- strings
RECURSIVE lstrip(_)
lstrip(s) ==
    IF s # <<>> /\ Head(s) \in Whitespace THEN lstrip(Tail(s)) ELSE s

RECURSIVE rstrip(_)
rstrip(s) ==
    IF s # <<>> /\ s[Len(s)] \in Whitespace
    THEN rstrip(SubSeq(s, 1, Len(s) - 1))
    ELSE s

\* str.strip()
strip(s) == rstrip(lstrip(s))

\* re.match(r"^[A-Za-z_][A-Za-z0-9_]*$", s): '$' also matches just before a
\* single trailing newline.
re_match(s) ==
    /\ s # <<>>
    /\ s[1] \in IdentStart
    /\ \/ \A i \in 2..Len(s) : s[i] \in IdentPart
       \/ /\ Len(s) >= 2
          /\ s[Len(s)] = 10
          /\ \A i \in 2..(Len(s) - 1) : s[i] \in IdentPart

\* code-point order of Python's str comparison
StrLess(s, t) ==
    \E i \in 1..(Len(t)) :
        /\ \A j \in 1..(i - 1) : j <= Len(s) /\ s[j] = t[j]
        /\ \/ i > Len(s)
           \/ i <= Len(s) /\ s[i] < t[i]

\* mutation of sorted: the largest string first
RECURSIVE sorted_descending(_)
sorted_descending(S) ==
    IF S = {} THEN <<>>
    ELSE LET m == CHOOSE x \in S : \A y \in S : x = y \/ StrLess(y, x)
         IN  <<m>> \o sorted_descending(S \ {m})

\* sorted(list(S)) for a set of strings
RECURSIVE sorted(_)
sorted(S) ==
    IF S = {} THEN <<>>
    ELSE LET m == CHOOSE x \in S : \A y \in S : x = y \/ StrLess(x, y)
         IN  <<m>> \o sorted(S \ {m})

\* -------------------------------------------------- identifier sanitizer
\* A result of the sanitizer: either it raises ValueError("Invalid ...") or it
\* returns the back-tick quoted text.
\* mutation of _quote_label: the text is quoted unchecked
quote_without_check(label) == [raises |-> FALSE, text |-> Backtick \o label \o Backtick]

\* mutation of _quote_label: the pattern is tried on the untrimmed text
quote_without_strip(label) ==
    IF label = <<>> \/ ~re_match(label)
    THEN [raises |-> TRUE, text |-> <<>>]
    ELSE [raises |-> FALSE, text |-> Backtick \o label \o Backtick]

\* _quote_label: strip, check against the pattern, wrap in back-ticks
_quote_label(label) ==
    LET s == strip(label)
    IN  IF s = <<>> \/ ~re_match(s)
        THEN [raises |-> TRUE, text |-> <<>>]
        ELSE [raises |-> FALSE, text |-> Backtick \o s \o Backtick]

_quote_reltype(rel_type) ==
    LET s == strip(rel_type)
    IN  IF s = <<>> \/ ~re_match(s)
        THEN [raises |-> TRUE, text |-> <<>>]
        ELSE [raises |-> FALSE, text |-> Backtick \o s \o Backtick]

\* The store's reading of a back-tick quoted name in query text.
Unquote(q) == SubSeq(q, 2, Len(q) - 1)

\* ------------------------------------------------------------- the store
\* nodes, rels: the graph store.  last: the call completed last, with its result.
\* calls: the call each client has under way.  sessions: the number of sessions
\* open on the driver.  environ: os.environ.  _driver: the driver of the
\* GraphCrud instance.
VARIABLES nodes, rels, last, calls, sessions, environ, _driver,
          session_state, dialog, cache_data, cache_resource, drivers


\* the state Streamlit keeps for the pages.  session_state: st.session_state.
\* dialog: the delete dialog, closed or open on a node.  cache_data: what
\* st.cache_data holds for load_dashboard_metrics.  cache_resource: what
\* st.cache_resource holds for _crud_factory.  drivers: the drivers that were
\* constructed and not closed.
streamlit == <<session_state, dialog, cache_data, cache_resource, drivers>>

vars == <<nodes, rels, last, calls, sessions, environ, _driver,
          session_state, dialog, cache_data, cache_resource, drivers>>

\* a name not in st.session_state, a closed dialog, an empty cache
Missing == [kind |-> "missing"]

\* Streamlit before any page has run
InitStreamlit ==
    /\ session_state = <<>>
    /\ dialog = Missing
    /\ cache_data = Missing
    /\ cache_resource = Missing
    /\ drivers = {}

\* the element ids the store can hand out
NodeIds == 1..MaxIds
RelIds == 1..MaxRelIds

\* mutation of Truthy: the key is present, whatever its string
HasKey(properties, key) == key \in DOMAIN properties

\* dict.get(key) is truthy: the key is present and its string is not empty
Truthy(properties, key) == key \in DOMAIN properties /\ properties[key] # <<>>

\* mutation of SetPlus: the properties are replaced wholesale (SET n = $props)
SetReplace(old, props) == props

\* SET n += $props : keys of props are added or replaced, other keys are kept
SetPlus(old, props) ==
    [k \in DOMAIN old \cup DOMAIN props |-> IF k \in DOMAIN props THEN props[k] ELSE old[k]]

\* mutation of MatchNodes: the label is left out of the match
MatchAnyLabel(qlabel, key, value) ==
    {i \in DOMAIN nodes : key \in DOMAIN nodes[i].props /\ nodes[i].props[key] = value}

\* MATCH (n:<qlabel> {<key>: $value}) : every node of the label holding the value
MatchNodes(qlabel, key, value) ==
    {i \in DOMAIN nodes :
        /\ nodes[i].label = Unquote(qlabel)
        /\ key \in DOMAIN nodes[i].props
        /\ nodes[i].props[key] = value}

\* mutation of MatchLabel: the label is not looked at
MatchEveryNode(qlabel) == DOMAIN nodes

\* MATCH (n:<qlabel>) : every node of the label
MatchLabel(qlabel) == {i \in DOMAIN nodes : nodes[i].label = Unquote(qlabel)}

\* the nodes of a set get SET n += $props
SetProps(ids, props) ==
    [i \in DOMAIN nodes |->
        IF i \in ids THEN [nodes[i] EXCEPT !.props = SetPlus(@, props)] ELSE nodes[i]]

FreeNodeIds == NodeIds \ DOMAIN nodes
FreeRelIds == RelIds \ DOMAIN rels

\* mutation of DetachDelete: the nodes go, their relationships stay
delete_nodes_only(ids) ==
    /\ nodes' = [i \in DOMAIN nodes \ ids |-> nodes[i]]
    /\ rels' = rels

\* DETACH DELETE of a set of nodes: the nodes and every relationship touching them
DetachDelete(ids) ==
    /\ nodes' = [i \in DOMAIN nodes \ ids |-> nodes[i]]
    /\ rels' = [r \in {x \in DOMAIN rels : rels[x].from \notin ids /\ rels[x].to \notin ids}
                    |-> rels[r]]

\* ------------------------------------------------ clients and the driver
Clients == 1..MaxClients

\* a client with no call under way
Idle == [pc |-> "idle"]

\* os.environ with the three settings present: a mapping from names to strings
Configured ==
    [NEO4J_URI |-> <<98>>, NEO4J_USERNAME |-> <<110>>, NEO4J_PASSWORD |-> <<112>>]

\* GraphDatabase.driver(uri, auth=(username, password), ...)
Driver(env) ==
    [uri |-> env["NEO4J_URI"], auth |-> <<env["NEO4J_USERNAME"], env["NEO4J_PASSWORD"]>>]

\* no GraphCrud instance, hence no driver
NoDriver == [uri |-> <<>>, auth |-> <<>>]

\* ------------------------------------------------------ results of a call
NodeId(i) == [kind |-> "node_id", id |-> i]
RelId(i) == [kind |-> "rel_id", id |-> i]
None == [kind |-> "None"]
ValidationError == [kind |-> "raise", error |-> "ValidationError"]
InvalidIdentifier == [kind |-> "raise", error |-> "InvalidIdentifier"]

\* A statement handed to session.run: which query, and the identifier texts
\* spliced into its text by the f-string.
Stmt(query, idents) == [query |-> query, idents |-> idents]

\* The record of the call just completed: the call, its result, the number of
\* sessions it opened (each closed again by its with-block) and the statements
\* it executed, in order.
Done(call, result, opened, stmts) ==
    /\ last' = call @@ [result |-> result, opened |-> opened, stmts |-> stmts]
    /\ UNCHANGED <<calls, sessions, environ, _driver>>

\* a call that ends without touching the store
Unchanged(call, result, opened, stmts) ==
    /\ nodes' = nodes
    /\ rels' = rels
    /\ Done(call, result, opened, stmts)

\* ------------------------------------------------------- node operations
\* create_node (the spec's upsertNode): probe by name, update the node found,
\* else MERGE on emailaddress (when truthy) or on name.
create_node(label, properties) ==
    LET call == [op |-> "create_node", label |-> label, props |-> properties]
        q == _quote_label(label)
        qlabel == q.text
        has_name == Truthy(properties, "name")
        probe == IF has_name THEN MatchNodes(qlabel, "name", properties["name"]) ELSE {}
        checked == IF has_name THEN <<Stmt("check", <<qlabel>>)>> ELSE <<>>
        merge_key == IF Truthy(properties, "emailaddress") THEN "emailaddress" ELSE "name"
        merge_value == properties[merge_key]
        matched == MatchNodes(qlabel, merge_key, merge_value)
    IN  IF ~Truthy(properties, "emailaddress") /\ ~has_name
        THEN Unchanged(call, ValidationError, 0, <<>>)
        ELSE IF q.raises
        THEN Unchanged(call, InvalidIdentifier, 1, <<>>)
        ELSE IF probe # {}
        THEN \* .single() hands back one of the rows; the update goes by elementId
             \E existing_node \in probe :
                /\ nodes' = SetProps({existing_node}, properties)
                /\ rels' = rels
                /\ Done(call, NodeId(existing_node), 1, checked \o <<Stmt("update", <<>>)>>)
        ELSE IF matched # {}
        THEN \* MERGE ... ON MATCH SET n += $props acts on every node it matches
             \E returned \in matched :
                /\ nodes' = SetProps(matched, properties)
                /\ rels' = rels
                /\ Done(call, NodeId(returned), 1, checked \o <<Stmt("merge", <<qlabel>>)>>)
        ELSE \* MERGE creates (n:label {merge_key: merge_value}), ON CREATE SET n += $props
             \E id \in FreeNodeIds :
                /\ nodes' = nodes @@ (id :> [label |-> Unquote(qlabel),
                                             props |-> SetPlus((merge_key :> merge_value),
                                                               properties)])
                /\ rels' = rels
                /\ Done(call, NodeId(id), 1, checked \o <<Stmt("merge", <<qlabel>>)>>)

\* mutation of insert_node: a node that holds the name is updated, not kept
insert_or_update(label, properties) ==
    LET call == [op |-> "insert_node", label |-> label, props |-> properties]
        q == _quote_label(label)
        qlabel == q.text
        probe == MatchNodes(qlabel, "name", properties["name"])
    IN  IF ~Truthy(properties, "name")
        THEN Unchanged(call, ValidationError, 0, <<>>)
        ELSE IF q.raises
        THEN Unchanged(call, InvalidIdentifier, 1, <<>>)
        ELSE IF probe # {}
        THEN /\ nodes' = SetProps(probe, properties)
             /\ rels' = rels
             /\ Done(call, None, 1, <<Stmt("check", <<qlabel>>)>>)
        ELSE \E id \in FreeNodeIds :
                /\ nodes' = nodes @@ (id :> [label |-> Unquote(qlabel),
                                             props |-> SetPlus(<<>>, properties)])
                /\ rels' = rels
                /\ Done(call, NodeId(id), 1,
                        <<Stmt("check", <<qlabel>>), Stmt("create", <<qlabel>>)>>)

\* insert_node (the spec's insertNode): create only when the name probe misses
insert_node(label, properties) ==
    LET call == [op |-> "insert_node", label |-> label, props |-> properties]
        q == _quote_label(label)
        qlabel == q.text
    IN  IF ~Truthy(properties, "name")
        THEN Unchanged(call, ValidationError, 0, <<>>)
        ELSE IF q.raises
        THEN Unchanged(call, InvalidIdentifier, 1, <<>>)
        ELSE IF MatchNodes(qlabel, "name", properties["name"]) # {}
        THEN Unchanged(call, None, 1, <<Stmt("check", <<qlabel>>)>>)
        ELSE \E id \in FreeNodeIds :
                /\ nodes' = nodes @@ (id :> [label |-> Unquote(qlabel),
                                             props |-> SetPlus(<<>>, properties)])
                /\ rels' = rels
                /\ Done(call, NodeId(id), 1,
                        <<Stmt("check", <<qlabel>>), Stmt("create", <<qlabel>>)>>)

\* get_nodes_by_type (the spec's getNodeNamesByType)
get_nodes_by_type(node_type) ==
    LET call == [op |-> "get_nodes_by_type", label |-> node_type]
        q == _quote_label(node_type)
        \* RETURN DISTINCT n.name : a row per distinct value, null for a node without name
        rows == {IF "name" \in DOMAIN nodes[i].props
                 THEN <<nodes[i].props["name"]>> ELSE <<>> : i \in MatchLabel(q.text)}
        \* if record["name"]: nodes.add(record["name"])
        found == {row[1] : row \in {x \in rows : x # <<>> /\ x[1] # <<>>}}
    IN  IF q.raises
        THEN Unchanged(call, InvalidIdentifier, 1, <<>>)
        ELSE Unchanged(call, [kind |-> "list", value |-> sorted(found)], 1,
                       <<Stmt("names", <<q.text>>)>>)

\* read_node_properties_by_name (the spec's readNodeProperties)
read_node_properties_by_name(label, name) ==
    LET call == [op |-> "read_node_properties_by_name", label |-> label, name |-> name]
        q == _quote_label(label)
        rows == MatchNodes(q.text, "name", name)
    IN  IF q.raises
        THEN Unchanged(call, InvalidIdentifier, 1, <<>>)
        ELSE IF rows = {}
        THEN Unchanged(call, None, 1, <<Stmt("read", <<q.text>>)>>)
        ELSE \E n \in rows :
                Unchanged(call, [kind |-> "props", value |-> nodes[n].props], 1,
                          <<Stmt("read", <<q.text>>)>>)

\* delete_node (the spec's deleteNode)
delete_node(label, name) ==
    LET call == [op |-> "delete_node", label |-> label, name |-> name]
        q == _quote_label(label)
        matched == MatchNodes(q.text, "name", name)
    IN  IF name = <<>>
        THEN Unchanged(call, ValidationError, 0, <<>>)
        ELSE IF q.raises
        THEN Unchanged(call, InvalidIdentifier, 1, <<>>)
        ELSE /\ DetachDelete(matched)
             /\ Done(call, [kind |-> "bool", value |-> Cardinality(matched) > 0],
                     1, <<Stmt("delete", <<q.text>>)>>)

\* count_nodes (the spec's count)
count_nodes(label) ==
    LET call == [op |-> "count_nodes", label |-> label]
        q == _quote_label(label)
    IN  IF q.raises
        THEN Unchanged(call, InvalidIdentifier, 1, <<>>)
        ELSE Unchanged(call, [kind |-> "int", value |-> Cardinality(MatchLabel(q.text))],
                       1, <<Stmt("count", <<q.text>>)>>)

\* mutation of LoopOver: the loop ends at the first label whose count fails
loop_until_failure(labels, failures) ==
    {i \in 1..Len(labels) :
        \A j \in 1..i : j \notin failures /\ ~_quote_label(labels[j]).raises}

\* for label in labels: every position of the list is handled, the try
\* statement keeps a failure from ending the loop
LoopOver(labels, failures) == 1..Len(labels)

\* counts_by_labels: counts[label] = count_nodes(label), or 0 when that call
\* raises; failures are the positions at which the store fails
counts_by_labels(labels, failures) ==
    LET call == [op |-> "counts_by_labels", labels |-> labels, failures |-> failures]
        Raises(i) == i \in failures \/ _quote_label(labels[i]).raises
        count(i) == IF Raises(i)
                    THEN 0
                    ELSE Cardinality(MatchLabel(_quote_label(labels[i]).text))
        handled == LoopOver(labels, failures)
        \* a label listed twice keeps the value assigned last
        Assigned(k) == CHOOSE i \in handled :
                          /\ labels[i] = k
                          /\ \A j \in handled : labels[j] = k => j <= i
        valid == SelectSeq(labels, LAMBDA l : ~_quote_label(l).raises)
    IN  Unchanged(call,
                  [kind |-> "dict",
                   value |-> [k \in {labels[i] : i \in handled} |-> count(Assigned(k))]],
                  Len(labels),
                  [i \in 1..Len(valid) |-> Stmt("count", <<_quote_label(valid[i]).text>>)])

\* mutation of Alive: any row counts as a sign of life
alive_on_any_row(res) == res.kind = "row"

\* bool(res and res["ok"] == 1) inside try / except Exception: return False;
\* a raise, no row, a row without fields and a row without the key "ok"
\* all end in False
Alive(res) ==
    /\ res.kind = "row"
    /\ res.row # <<>>
    /\ "ok" \in DOMAIN res.row
    /\ res.row.ok = 1

\* is_alive: what session() and run("RETURN 1 AS ok").single() come to is
\* res; a session was opened unless session() itself raised
is_alive(res) ==
    Unchanged([op |-> "is_alive", res |-> res],
              [kind |-> "bool", value |-> Alive(res)],
              IF res.kind = "session_failure" THEN 0 ELSE 1,
              IF res.kind = "session_failure" THEN <<>> ELSE <<Stmt("return_1", <<>>)>>)

\* os.getenv(name): the string of the setting, or None when it is not set
getenv(env, name) ==
    IF name \in DOMAIN env THEN [set |-> TRUE, value |-> env[name]] ELSE [set |-> FALSE]

\* mutation of Falsy: only None is refused
is_None(v) == ~v.set

\* "not v" for what os.getenv returns: None or the empty string
Falsy(v) == ~v.set \/ v.value = <<>>

ValueError(name) == [kind |-> "raise", error |-> "ValueError", name |-> name]

\* GraphCrud(): the three settings are read and checked in turn, the first
\* one missing raises ValueError before GraphDatabase.driver is reached;
\* get_crud keeps the object once the constructor has returned
__init__ ==
    LET uri == getenv(environ, "NEO4J_URI")
        username == getenv(environ, "NEO4J_USERNAME")
        password == getenv(environ, "NEO4J_PASSWORD")
        Raise(name) == /\ last' = [op |-> "__init__", result |-> ValueError(name)]
                       /\ _driver' = _driver
    IN  /\ _driver = NoDriver
        /\ IF Falsy(uri) THEN Raise("NEO4J_URI")
           ELSE IF Falsy(username) THEN Raise("NEO4J_USERNAME")
           ELSE IF Falsy(password) THEN Raise("NEO4J_PASSWORD")
           ELSE /\ _driver' = [uri |-> uri.value,
                               auth |-> <<username.value, password.value>>]
                /\ last' = [op |-> "__init__", result |-> None]
        /\ UNCHANGED <<nodes, rels, calls, sessions, environ, streamlit>>

\* clear_database: MATCH (n) DETACH DELETE n, nothing returned
clear_database ==
    /\ DetachDelete(DOMAIN nodes)
    /\ Done([op |-> "clear_database"], None, 1, <<Stmt("clear", <<>>)>>)

\* total_nodes: MATCH (n) RETURN count(n)
total_nodes ==
    Unchanged([op |-> "total_nodes"],
              [kind |-> "int", value |-> Cardinality(DOMAIN nodes)],
              1, <<Stmt("total_nodes", <<>>)>>)

\* rows of the pattern ()-[r]-() for the relationships found: the pattern has
\* no direction, so a relationship between two nodes matches once from
\* either end and a relationship from a node to itself matches once
UndirectedRows(found) ==
    Cardinality({<<x, end>> \in found \X {"from", "to"} :
                    end = "to" => rels[x].from # rels[x].to})

\* count_relationships: MATCH ()-[r:type]-() RETURN count(r)
count_relationships(rel_type) ==
    LET call == [op |-> "count_relationships", rel_type |-> rel_type]
        q == _quote_reltype(rel_type)
        found == {x \in DOMAIN rels : rels[x].type = Unquote(q.text)}
    IN  IF q.raises
        THEN Unchanged(call, InvalidIdentifier, 1, <<>>)
        ELSE Unchanged(call, [kind |-> "int", value |-> UndirectedRows(found)],
                       1, <<Stmt("count_rels", <<q.text>>)>>)

\* total_relationships: MATCH ()-[r]-() RETURN count(r)
total_relationships ==
    Unchanged([op |-> "total_relationships"],
              [kind |-> "int", value |-> UndirectedRows(DOMAIN rels)],
              1, <<Stmt("total_rels", <<>>)>>)

\* ------------------------------------------------- relationship operation
\* create_relation_by_name (the spec's createRelationship):
\* MATCH (a:A {name}), (b:B {name}) MERGE (a)-[r:R]->(b) SET r += $properties
create_relation_by_name(start_label, start_name, end_label, end_name, relationship_type, properties) ==
    LET call == [op |-> "create_relation_by_name",
                 label |-> start_label, name |-> start_name,
                 end_label |-> end_label, end_name |-> end_name,
                 rel_type |-> relationship_type, props |-> properties]
        a == _quote_label(start_label)
        b == _quote_label(end_label)
        r == _quote_reltype(relationship_type)
        stmt == <<Stmt("merge_rel", <<a.text, b.text, r.text>>)>>
        \* one row per pair of matching endpoints
        pairs == MatchNodes(a.text, "name", start_name)
                    \X MatchNodes(b.text, "name", end_name)
        Existing(p) == {x \in DOMAIN rels : /\ rels[x].from = p[1]
                                             /\ rels[x].to = p[2]
                                             /\ rels[x].type = Unquote(r.text)}
        to_create == {p \in pairs : Existing(p) = {}}
        to_update == UNION {Existing(p) : p \in pairs}
    IN  IF a.raises \/ b.raises \/ r.raises
        THEN Unchanged(call, InvalidIdentifier, 1, <<>>)
        ELSE IF pairs = {}
        THEN Unchanged(call, None, 1, stmt)
        ELSE \E ids \in SUBSET FreeRelIds :
             \E at \in [to_create -> ids] :
                /\ \A i \in ids : \E p \in to_create : at[p] = i
                /\ \A p1, p2 \in to_create : at[p1] = at[p2] => p1 = p2
                /\ nodes' = nodes
                /\ rels' = [x \in DOMAIN rels \cup ids |->
                              IF x \in to_update
                              THEN [rels[x] EXCEPT !.props = SetPlus(@, properties)]
                              ELSE IF x \in ids
                              THEN LET p == CHOOSE p \in to_create : at[p] = x
                                   IN  [from |-> p[1], to |-> p[2],
                                        type |-> Unquote(r.text),
                                        props |-> SetPlus(<<>>, properties)]
                              ELSE rels[x]]
                /\ \E returned \in to_update \cup ids :
                      Done(call, RelId(returned), 1, stmt)

\* ------------------------------------------------------------ the inputs
\* labels as callers pass them: "a", "b", " a" (padded) and "1a" (rejected)
LabelInputs == {<<97>>, <<98>>, <<32, 97>>, <<49, 97>>}
\* names "", "ab", "b"
NameInputs == {<<>>, <<97, 98>>, <<98>>}
\* e-mail addresses "e", "f"
EmailInputs == {<<101>>, <<102>>}

\* every dict over the keys name and emailaddress
PropertyInputs ==
    {p \in UNION {[D -> NameInputs \cup EmailInputs] : D \in SUBSET {"name", "emailaddress"}} :
        /\ "name" \in DOMAIN p => p["name"] \in NameInputs
        /\ "emailaddress" \in DOMAIN p => p["emailaddress"] \in EmailInputs}

\* The inputs of the runs that also create relationships: labels "a", "b",
\* "1a" and " " (both rejected), dicts {}, {"name": "ab"}, {"name": "b"} and
\* {"name": "ab", "emailaddress": "e"}, relationship dicts {} and
\* {"since": "1"}, and relation configurations (relationship type,
\* start label, end label): R from a to b, R from a to a, and three that the
\* sanitizer rejects ("R-" as type, "1a" as start label, "1a" as end label).
GraphLabelInputs == {<<97>>, <<98>>, <<49, 97>>, <<32>>}
GraphNameInputs == {<<97, 98>>, <<98>>}
GraphPropertyInputs ==
    {<<>>, [name |-> <<97, 98>>, emailaddress |-> <<101>>]}
        \cup {[name |-> n] : n \in GraphNameInputs}
RelPropertyInputs == {<<>>, [since |-> <<49>>]}
RelationInputs ==
    {[type |-> <<82>>, node_1 |-> <<97>>, node_2 |-> <<98>>],
     [type |-> <<82>>, node_1 |-> <<97>>, node_2 |-> <<97>>],
     [type |-> <<82, 45>>, node_1 |-> <<97>>, node_2 |-> <<98>>],
     [type |-> <<82>>, node_1 |-> <<49, 97>>, node_2 |-> <<98>>],
     [type |-> <<82>>, node_1 |-> <<97>>, node_2 |-> <<49, 97>>]}

\* ------------------------------------------------------- the state machine
\* an empty store and no call made yet
Init ==
    /\ nodes = <<>>
    /\ rels = <<>>
    /\ last = [op |-> "none"]
    /\ calls = [c \in Clients |-> Idle]
    /\ sessions = 0
    /\ environ = Configured
    /\ _driver = Driver(Configured)
    /\ InitStreamlit

\* the store holds at most n nodes, under the element ids 1..n
Within(n) == DOMAIN nodes' \subseteq 1..n

\* the relationship element ids one specification lets the store hand out
WithinRels(n) == DOMAIN rels' \subseteq 1..n

\* the node operations, called with any of the given labels, dicts and names,
\* on a store of at most MaxNodes nodes
NodeCalls(Labels, Properties, Names) ==
    \/ \E label \in Labels, properties \in Properties :
          create_node(label, properties) /\ Within(MaxNodes) /\ UNCHANGED streamlit
    \/ \E label \in Labels, properties \in Properties :
          insert_node(label, properties) /\ Within(MaxNodes) /\ UNCHANGED streamlit
    \/ \E node_type \in Labels : get_nodes_by_type(node_type) /\ UNCHANGED streamlit
    \/ \E label \in Labels, name \in Names : read_node_properties_by_name(label, name) /\ UNCHANGED streamlit
    \/ \E label \in Labels, name \in Names : delete_node(label, name) /\ UNCHANGED streamlit
    \/ \E label \in Labels : count_nodes(label) /\ UNCHANGED streamlit

\* create_relation_by_name, called as the relation page calls it: the labels
\* and the type of a relation configuration, any two names, any dict
RelationCalls(Relations, Names, Properties) ==
    \E relation \in Relations, node_1 \in Names, node_2 \in Names,
       properties \in Properties :
        /\ create_relation_by_name(relation.node_1, node_1, relation.node_2, node_2,
                                   relation.type, properties)
        /\ WithinRels(MaxRels) /\ UNCHANGED streamlit

\* sequential calls of the node operations
Next == NodeCalls(LabelInputs, PropertyInputs, NameInputs)

Spec == Init /\ [][Next]_vars

\* sequential calls of the node operations and of create_relation_by_name
NextGraph ==
    \/ NodeCalls(GraphLabelInputs, GraphPropertyInputs, GraphNameInputs \cup {<<>>})
    \/ RelationCalls(RelationInputs, GraphNameInputs, RelPropertyInputs)

SpecGraph == Init /\ [][NextGraph]_vars

\* relation page over a store filled with e-mail addresses: three nodes and
\* two relationships, the start label "a", the end label "b"
MergePropertyInputs ==
    {[emailaddress |-> <<101>>],
     [name |-> <<97, 98>>, emailaddress |-> <<101>>],
     [name |-> <<98>>, emailaddress |-> <<101>>]}
MergeRelPropertyInputs == {[since |-> <<49>>], [since |-> <<50>>]}

NextMerge ==
    \/ \E properties \in MergePropertyInputs :
          create_node(<<97>>, properties) /\ Within(MaxIds) /\ UNCHANGED streamlit
    \/ \E label \in {<<97>>, <<98>>}, properties \in MergePropertyInputs :
          insert_node(label, properties) /\ Within(MaxIds) /\ UNCHANGED streamlit
    \/ \E properties \in MergeRelPropertyInputs :
          /\ create_relation_by_name(<<97>>, <<98>>, <<98>>, <<98>>, <<82>>, properties)
          /\ WithinRels(MaxRelIds) /\ UNCHANGED streamlit

SpecMerge == Init /\ [][NextMerge]_vars

\* dashboard counts over a store of three nodes: inserts, upserts, deletions
\* and clear_database followed by count_nodes and total_nodes
CountLabelInputs == {<<97>>, <<98>>}
CountNameInputs == {<<97>>, <<97, 98>>, <<98>>}
CountPropertyInputs == {[name |-> n] : n \in CountNameInputs}

NextCount ==
    \/ \E label \in CountLabelInputs, properties \in CountPropertyInputs :
          create_node(label, properties) /\ Within(MaxIds) /\ UNCHANGED streamlit
    \/ \E label \in CountLabelInputs, properties \in CountPropertyInputs :
          insert_node(label, properties) /\ Within(MaxIds) /\ UNCHANGED streamlit
    \/ \E label \in CountLabelInputs, name \in CountNameInputs : delete_node(label, name) /\ UNCHANGED streamlit
    \/ clear_database /\ UNCHANGED streamlit
    \/ \E label \in CountLabelInputs \cup {<<32, 97>>, <<49, 97>>} : count_nodes(label) /\ UNCHANGED streamlit
    \/ total_nodes /\ UNCHANGED streamlit

SpecCount == Init /\ [][NextCount]_vars

\* relationship counts over a store of two nodes and two relationships
EdgeNameInputs == {<<97, 98>>}
EdgePropertyInputs == {[name |-> n] : n \in EdgeNameInputs}
EdgeRelationInputs ==
    {[type |-> <<82>>, node_1 |-> <<97>>, node_2 |-> <<98>>],
     [type |-> <<82>>, node_1 |-> <<97>>, node_2 |-> <<97>>],
     [type |-> <<83>>, node_1 |-> <<97>>, node_2 |-> <<98>>]}

NextEdges ==
    \/ \E label \in CountLabelInputs, properties \in EdgePropertyInputs :
          insert_node(label, properties) /\ Within(MaxNodes) /\ UNCHANGED streamlit
    \/ \E label \in CountLabelInputs, name \in EdgeNameInputs : delete_node(label, name) /\ UNCHANGED streamlit
    \/ \E relation \in EdgeRelationInputs, name \in EdgeNameInputs :
          /\ create_relation_by_name(relation.node_1, name, relation.node_2, name,
                                     relation.type, <<>>)
          /\ WithinRels(MaxRelIds) /\ UNCHANGED streamlit
    \/ \E rel_type \in {<<82>>, <<83>>, <<82, 45>>} : count_relationships(rel_type) /\ UNCHANGED streamlit
    \/ total_relationships /\ UNCHANGED streamlit

SpecEdges == Init /\ [][NextEdges]_vars

\* label lists handed to counts_by_labels: up to MaxBatch labels, among them
\* a padded one and one that is no identifier
MaxBatch == 2
BatchLabelInputs == {<<97>>, <<98>>, <<32, 97>>, <<49, 97>>}
BatchInputs == UNION {[1..n -> BatchLabelInputs] : n \in 0..MaxBatch}

NextBatch ==
    \/ \E label \in CountLabelInputs, properties \in EdgePropertyInputs :
          insert_node(label, properties) /\ Within(MaxNodes) /\ UNCHANGED streamlit
    \/ \E label \in CountLabelInputs, name \in EdgeNameInputs : delete_node(label, name) /\ UNCHANGED streamlit
    \/ \E labels \in BatchInputs : \E failures \in SUBSET (1..Len(labels)) :
          counts_by_labels(labels, failures) /\ UNCHANGED streamlit

SpecBatch == Init /\ [][NextBatch]_vars

\* what the round trip of is_alive can come to: session() raises, run()
\* raises, no row, or a row with the fields shown
RoundTrips ==
    {[kind |-> k] : k \in {"session_failure", "transport_failure", "empty"}}
        \cup {[kind |-> "row", row |-> r] :
                 r \in {<<>>, [ok |-> 0], [ok |-> 1], [ok |-> 2], [c |-> 1]}}

\* the dashboard's liveness check next to insertions and deletions
NextAlive ==
    \/ \E label \in CountLabelInputs, properties \in CountPropertyInputs :
          insert_node(label, properties) /\ Within(MaxNodes) /\ UNCHANGED streamlit
    \/ \E label \in CountLabelInputs, name \in CountNameInputs : delete_node(label, name) /\ UNCHANGED streamlit
    \/ \E res \in RoundTrips : is_alive(res) /\ UNCHANGED streamlit

SpecAlive == Init /\ [][NextAlive]_vars

\* the environments a process can start in: each of the three settings is
\* not set, set to the empty string, or set to its value
Settings == {"NEO4J_URI", "NEO4J_USERNAME", "NEO4J_PASSWORD"}
Environments ==
    UNION {{[k \in set |-> IF k \in empty THEN <<>> ELSE Configured[k]] :
               empty \in SUBSET set} : set \in SUBSET Settings}

\* start of the process: no GraphCrud object yet
InitConfig ==
    /\ nodes = <<>>
    /\ rels = <<>>
    /\ last = [op |-> "none"]
    /\ calls = [c \in Clients |-> Idle]
    /\ sessions = 0
    /\ environ \in Environments
    /\ _driver = NoDriver
    /\ InitStreamlit

\* the pages call the operations on the object the constructor returned
NextConfig ==
    \/ __init__ /\ UNCHANGED streamlit
    \/ \E label \in CountLabelInputs, properties \in CountPropertyInputs :
          _driver # NoDriver /\ insert_node(label, properties) /\ Within(MaxNodes) /\ UNCHANGED streamlit
    \/ \E label \in CountLabelInputs, name \in CountNameInputs :
          _driver # NoDriver /\ delete_node(label, name) /\ UNCHANGED streamlit
    \/ \E label \in CountLabelInputs : _driver # NoDriver /\ count_nodes(label) /\ UNCHANGED streamlit

SpecConfig == InitConfig /\ [][NextConfig]_vars

\* ------------------------------------------ calls of concurrent clients
\* Each client (a Streamlit script run) has one call under way at a time.  A
\* call takes one step to enter its with-block and one step per statement it
\* hands to session.run; the store executes a statement atomically, and a
\* statement may fail (the store is down, the transport breaks).
StoreFailure == [kind |-> "raise", error |-> "StoreFailure"]
\* result["node_id"] on a result that is None
TypeError == [kind |-> "raise", error |-> "TypeError"]

\* the call of client c is over: its record, with the client and the result
Returned(c, call, result) == last' = call @@ [client |-> c, result |-> result]

\* a call refused by its argument check, before the with-block
Refuse(c, call) ==
    /\ calls[c] = Idle
    /\ Returned(c, call, ValidationError)
    /\ UNCHANGED <<nodes, rels, calls, sessions, environ, _driver, streamlit>>

\* with self._driver.session() as session: the block is entered with a new
\* session, unless the driver cannot hand one out
Enter(c, call) ==
    /\ calls[c] = Idle
    /\ \/ /\ calls' = [calls EXCEPT ![c] = [pc |-> "entered", call |-> call]]
          /\ sessions' = sessions + 1
          /\ UNCHANGED <<nodes, rels, last, environ, _driver, streamlit>>
       \/ /\ Returned(c, call, StoreFailure)
          /\ UNCHANGED <<nodes, rels, calls, sessions, environ, _driver, streamlit>>

\* mutation of Leave: an exception leaves the session open
leave_open_on_raise(c, result) ==
    /\ calls' = [calls EXCEPT ![c] = Idle]
    /\ sessions' = IF result.kind = "raise" THEN sessions ELSE sessions - 1
    /\ Returned(c, calls[c].call, result)
    /\ UNCHANGED <<environ, _driver, streamlit>>

\* the with-block is left, by return or by exception: __exit__ closes the session
Leave(c, result) ==
    /\ calls' = [calls EXCEPT ![c] = Idle]
    /\ sessions' = sessions - 1
    /\ Returned(c, calls[c].call, result)
    /\ UNCHANGED <<environ, _driver, streamlit>>

\* the with-block is left and the store is as it was
LeaveUnchanged(c, result) ==
    /\ Leave(c, result)
    /\ UNCHANGED <<nodes, rels>>

\* the call of client c goes on at pc, with the locals it has bound
Goto(c, pc, locals) ==
    /\ calls' = [calls EXCEPT ![c] = [pc |-> pc, call |-> calls[c].call] @@ locals]
    /\ UNCHANGED <<nodes, rels, last, sessions, environ, _driver, streamlit>>

\* client c is in the given operation at the given place
At(c, op, pc) == calls[c].pc = pc /\ calls[c].call.op = op

\* create_node, lines 100-102: argument check, then the with-block
create_node_enter(c, label, properties) ==
    LET call == [op |-> "create_node", label |-> label, props |-> properties]
    IN  IF ~Truthy(properties, "emailaddress") /\ ~Truthy(properties, "name")
        THEN Refuse(c, call)
        ELSE Enter(c, call)

\* create_node, lines 103-111: the sanitizer, then the name probe
create_node_check(c) ==
    /\ At(c, "create_node", "entered")
    /\ LET call == calls[c].call
           q == _quote_label(call.label)
           probe == MatchNodes(q.text, "name", call.props["name"])
       IN  IF q.raises
           THEN LeaveUnchanged(c, InvalidIdentifier)
           ELSE IF ~Truthy(call.props, "name")
           THEN Goto(c, "merge", [qlabel |-> q.text])
           ELSE \/ LeaveUnchanged(c, StoreFailure)
                \/ /\ probe = {}
                   /\ Goto(c, "merge", [qlabel |-> q.text])
                \/ \E existing_node \in probe :
                      Goto(c, "update", [qlabel |-> q.text, existing_node |-> existing_node])

\* create_node, lines 112-120: the update by elementId; when the node is gone
\* the row is None and result["node_id"] raises
create_node_update(c) ==
    /\ At(c, "create_node", "update")
    /\ LET existing_node == calls[c].existing_node
       IN  \/ LeaveUnchanged(c, StoreFailure)
           \/ /\ existing_node \in DOMAIN nodes
              /\ nodes' = SetProps({existing_node}, calls[c].call.props)
              /\ rels' = rels
              /\ Leave(c, NodeId(existing_node))
           \/ /\ existing_node \notin DOMAIN nodes
              /\ LeaveUnchanged(c, TypeError)

\* mutation of create_node_merge: the write looks for the name once more
merge_after_second_probe(c) ==
    /\ At(c, "create_node", "merge")
    /\ LET properties == calls[c].call.props
           qlabel == calls[c].qlabel
           merge_key == IF Truthy(properties, "emailaddress") THEN "emailaddress" ELSE "name"
           merge_value == properties[merge_key]
           held == IF Truthy(properties, "name")
                   THEN MatchNodes(qlabel, "name", properties["name"])
                   ELSE {}
           matched == MatchNodes(qlabel, merge_key, merge_value) \cup held
       IN  \/ LeaveUnchanged(c, StoreFailure)
           \/ /\ matched # {}
              /\ nodes' = SetProps(matched, properties)
              /\ rels' = rels
              /\ \E returned \in matched : Leave(c, NodeId(returned))
           \/ /\ matched = {}
              /\ \E id \in FreeNodeIds :
                    /\ nodes' = nodes @@ (id :> [label |-> Unquote(qlabel),
                                                 props |-> SetPlus((merge_key :> merge_value),
                                                                   properties)])
                    /\ rels' = rels
                    /\ Leave(c, NodeId(id))

\* create_node, lines 121-135: MERGE on the merge key
create_node_merge(c) ==
    /\ At(c, "create_node", "merge")
    /\ LET properties == calls[c].call.props
           qlabel == calls[c].qlabel
           merge_key == IF Truthy(properties, "emailaddress") THEN "emailaddress" ELSE "name"
           merge_value == properties[merge_key]
           matched == MatchNodes(qlabel, merge_key, merge_value)
       IN  \/ LeaveUnchanged(c, StoreFailure)
           \/ /\ matched # {}
              /\ nodes' = SetProps(matched, properties)
              /\ rels' = rels
              /\ \E returned \in matched : Leave(c, NodeId(returned))
           \/ /\ matched = {}
              /\ \E id \in FreeNodeIds :
                    /\ nodes' = nodes @@ (id :> [label |-> Unquote(qlabel),
                                                 props |-> SetPlus((merge_key :> merge_value),
                                                                   properties)])
                    /\ rels' = rels
                    /\ Leave(c, NodeId(id))

\* insert_node, lines 145-149: argument check, then the with-block
insert_node_enter(c, label, properties) ==
    LET call == [op |-> "insert_node", label |-> label, props |-> properties]
    IN  IF ~Truthy(properties, "name") THEN Refuse(c, call) ELSE Enter(c, call)

\* insert_node, lines 150-160: the sanitizer, then the name probe
insert_node_check(c) ==
    /\ At(c, "insert_node", "entered")
    /\ LET call == calls[c].call
           q == _quote_label(call.label)
       IN  IF q.raises
           THEN LeaveUnchanged(c, InvalidIdentifier)
           ELSE \/ LeaveUnchanged(c, StoreFailure)
                \/ /\ MatchNodes(q.text, "name", call.props["name"]) # {}
                   /\ LeaveUnchanged(c, None)
                \/ /\ MatchNodes(q.text, "name", call.props["name"]) = {}
                   /\ Goto(c, "create", [qlabel |-> q.text])

\* mutation of insert_node_create: the write looks for the name once more
create_after_second_probe(c) ==
    /\ At(c, "insert_node", "create")
    /\ \/ LeaveUnchanged(c, StoreFailure)
       \/ /\ MatchNodes(calls[c].qlabel, "name", calls[c].call.props["name"]) # {}
          /\ LeaveUnchanged(c, None)
       \/ /\ MatchNodes(calls[c].qlabel, "name", calls[c].call.props["name"]) = {}
          /\ \E id \in FreeNodeIds :
                /\ nodes' = nodes @@ (id :> [label |-> Unquote(calls[c].qlabel),
                                             props |-> SetPlus(<<>>, calls[c].call.props)])
                /\ rels' = rels
                /\ Leave(c, NodeId(id))

\* insert_node, lines 162-168: CREATE
insert_node_create(c) ==
    /\ At(c, "insert_node", "create")
    /\ \/ LeaveUnchanged(c, StoreFailure)
       \/ \E id \in FreeNodeIds :
             /\ nodes' = nodes @@ (id :> [label |-> Unquote(calls[c].qlabel),
                                          props |-> SetPlus(<<>>, calls[c].call.props)])
             /\ rels' = rels
             /\ Leave(c, NodeId(id))

\* delete_node, lines 203-206: argument check, then the with-block
delete_node_enter(c, label, name) ==
    LET call == [op |-> "delete_node", label |-> label, name |-> name]
    IN  IF name = <<>> THEN Refuse(c, call) ELSE Enter(c, call)

\* delete_node, lines 207-212: the sanitizer, then DETACH DELETE in one statement
delete_node_run(c) ==
    /\ At(c, "delete_node", "entered")
    /\ LET call == calls[c].call
           q == _quote_label(call.label)
           matched == MatchNodes(q.text, "name", call.name)
       IN  IF q.raises
           THEN LeaveUnchanged(c, InvalidIdentifier)
           ELSE \/ LeaveUnchanged(c, StoreFailure)
                \/ /\ DetachDelete(matched)
                   /\ Leave(c, [kind |-> "bool", value |-> Cardinality(matched) > 0,
                                \* summary.counters of result.consume()
                                counters |->
                                    [nodes_deleted |-> Cardinality(matched),
                                     relationships_deleted |->
                                        Cardinality(DOMAIN rels \ DOMAIN rels')]])

\* the operations that only read: the with-block is entered
read_enter(c, call) == Enter(c, call)

\* get_nodes_by_type, lines 173-184
get_nodes_by_type_run(c) ==
    /\ At(c, "get_nodes_by_type", "entered")
    /\ LET q == _quote_label(calls[c].call.label)
           found == {nodes[i].props["name"] :
                        i \in {j \in MatchLabel(q.text) : Truthy(nodes[j].props, "name")}}
       IN  IF q.raises
           THEN LeaveUnchanged(c, InvalidIdentifier)
           ELSE \/ LeaveUnchanged(c, StoreFailure)
                \/ LeaveUnchanged(c, [kind |-> "list", value |-> sorted(found)])

\* read_node_properties_by_name, lines 189-196
read_node_properties_by_name_run(c) ==
    /\ At(c, "read_node_properties_by_name", "entered")
    /\ LET q == _quote_label(calls[c].call.label)
           rows == MatchNodes(q.text, "name", calls[c].call.name)
       IN  IF q.raises
           THEN LeaveUnchanged(c, InvalidIdentifier)
           ELSE \/ LeaveUnchanged(c, StoreFailure)
                \/ /\ rows = {}
                   /\ LeaveUnchanged(c, None)
                \/ \E n \in rows :
                      LeaveUnchanged(c, [kind |-> "props", value |-> nodes[n].props])

\* count_nodes, lines 221-223
count_nodes_run(c) ==
    /\ At(c, "count_nodes", "entered")
    /\ LET q == _quote_label(calls[c].call.label)
       IN  IF q.raises
           THEN LeaveUnchanged(c, InvalidIdentifier)
           ELSE \/ LeaveUnchanged(c, StoreFailure)
                \/ LeaveUnchanged(c, [kind |-> "int",
                                      value |-> Cardinality(MatchLabel(q.text))])

\* create_relation_by_name, line 264: the with-block is entered
create_relation_by_name_enter(c, start_label, start_name, end_label, end_name, relationship_type, properties) ==
    Enter(c, [op |-> "create_relation_by_name",
              label |-> start_label, name |-> start_name,
              end_label |-> end_label, end_name |-> end_name,
              rel_type |-> relationship_type, props |-> properties])

\* create_relation_by_name, lines 265-281: the sanitizers, then MATCH and MERGE
\* in one statement
create_relation_by_name_run(c) ==
    /\ At(c, "create_relation_by_name", "entered")
    /\ LET call == calls[c].call
           a == _quote_label(call.label)
           b == _quote_label(call.end_label)
           r == _quote_reltype(call.rel_type)
           pairs == MatchNodes(a.text, "name", call.name)
                       \X MatchNodes(b.text, "name", call.end_name)
           Existing(p) == {x \in DOMAIN rels : /\ rels[x].from = p[1]
                                                /\ rels[x].to = p[2]
                                                /\ rels[x].type = Unquote(r.text)}
           to_create == {p \in pairs : Existing(p) = {}}
           to_update == UNION {Existing(p) : p \in pairs}
       IN  IF a.raises \/ b.raises \/ r.raises
           THEN LeaveUnchanged(c, InvalidIdentifier)
           ELSE \/ LeaveUnchanged(c, StoreFailure)
                \/ /\ pairs = {}
                   /\ LeaveUnchanged(c, None)
                \/ /\ pairs # {}
                   /\ \E ids \in SUBSET FreeRelIds :
                      \E at \in [to_create -> ids] :
                         /\ \A i \in ids : \E p \in to_create : at[p] = i
                         /\ \A p1, p2 \in to_create : at[p1] = at[p2] => p1 = p2
                         /\ nodes' = nodes
                         /\ rels' = [x \in DOMAIN rels \cup ids |->
                                       IF x \in to_update
                                       THEN [rels[x] EXCEPT !.props = SetPlus(@, call.props)]
                                       ELSE IF x \in ids
                                       THEN LET p == CHOOSE p \in to_create : at[p] = x
                                            IN  [from |-> p[1], to |-> p[2],
                                                 type |-> Unquote(r.text),
                                                 props |-> SetPlus(<<>>, call.props)]
                                       ELSE rels[x]]
                         /\ \E returned \in to_update \cup ids : Leave(c, RelId(returned))

\* the inputs of the concurrent runs: labels "a" and "1a" (rejected), names
\* "ab" and "" (refused by delete_node), dicts {}, {"name": "ab"},
\* {"name": "ab", "emailaddress": "e"} and {"name": "ab", "emailaddress": "f"}
\* (the last two in the runs of create_node alone), the relation
\* configuration R from a to a
ClientLabelInputs == {<<97>>, <<49, 97>>}
ClientNameInputs == {<<97, 98>>, <<>>}
ClientPropertyInputs ==
    {<<>>, [name |-> <<97, 98>>]}
        \cup {[name |-> <<97, 98>>, emailaddress |-> e] : e \in EmailInputs}
ClientNodeInputs == {<<>>, [name |-> <<97, 98>>]}
ClientRelationInputs == {[type |-> <<82>>, node_1 |-> <<97>>, node_2 |-> <<97>>]}

\* the steps of create_node, taken by any client
UpsertSteps(Labels, Properties) ==
    \/ \E c \in Clients, label \in Labels, properties \in Properties :
          create_node_enter(c, label, properties)
    \/ \E c \in Clients : create_node_check(c)
    \/ \E c \in Clients : create_node_update(c)
    \/ \E c \in Clients : create_node_merge(c) /\ Within(MaxNodes)

\* the steps of the other operations, taken by any client; a client makes a
\* call when it has none under way
OtherSteps(Labels, Properties, Names, Relations) ==
    \/ \E c \in Clients, label \in Labels, properties \in Properties :
          insert_node_enter(c, label, properties)
    \/ \E c \in Clients : insert_node_check(c)
    \/ \E c \in Clients : insert_node_create(c) /\ Within(MaxNodes)
    \/ \E c \in Clients, label \in Labels, name \in Names : delete_node_enter(c, label, name)
    \/ \E c \in Clients : delete_node_run(c)
    \/ \E c \in Clients, label \in Labels :
          /\ calls[c] = Idle
          /\ read_enter(c, [op |-> "get_nodes_by_type", label |-> label])
    \/ \E c \in Clients : get_nodes_by_type_run(c)
    \/ \E c \in Clients, label \in Labels, name \in Names \ {<<>>} :
          /\ calls[c] = Idle
          /\ read_enter(c, [op |-> "read_node_properties_by_name",
                            label |-> label, name |-> name])
    \/ \E c \in Clients : read_node_properties_by_name_run(c)
    \/ \E c \in Clients, label \in Labels :
          /\ calls[c] = Idle
          /\ read_enter(c, [op |-> "count_nodes", label |-> label])
    \/ \E c \in Clients : count_nodes_run(c)
    \/ \E c \in Clients, relation \in Relations, node_1 \in Names \ {<<>>},
          node_2 \in Names \ {<<>>}, properties \in {<<>>} :
          /\ calls[c] = Idle
          /\ create_relation_by_name_enter(c, relation.node_1, node_1, relation.node_2,
                                           node_2, relation.type, properties)
    \/ \E c \in Clients : create_relation_by_name_run(c) /\ WithinRels(MaxRels)

\* concurrent create_node calls only
NextRace == UpsertSteps(ClientLabelInputs, ClientPropertyInputs)

SpecRace == Init /\ [][NextRace]_vars

\* concurrent insert_node calls only
NextInsertRace ==
    \/ \E c \in Clients, label \in ClientLabelInputs, properties \in ClientPropertyInputs :
          insert_node_enter(c, label, properties)
    \/ \E c \in Clients : insert_node_check(c)
    \/ \E c \in Clients : insert_node_create(c) /\ Within(MaxNodes)

SpecInsertRace == Init /\ [][NextInsertRace]_vars

\* the data model of each node type: its label and the keys of its form fields
node_configuration ==
    { \* "business_capability"
     [node_type |-> <<98, 117, 115, 105, 110, 101, 115, 115, 95, 99, 97, 112, 97, 98, 105, 108, 105, 116, 121>>,
      fields |-> <<"naam", "omschrijving">>],
     \* "software_bedrijf"
     [node_type |-> <<115, 111, 102, 116, 119, 97, 114, 101, 95, 98, 101, 100, 114, 105, 106, 102>>,
      fields |-> <<"naam", "adres", "website", "telefoonnummer", "e-mailadres">>],
     \* "applicatie"
     [node_type |-> <<97, 112, 112, 108, 105, 99, 97, 116, 105, 101>>,
      fields |-> <<"naam", "omschrijving">>],
     \* "keten_rol"
     [node_type |-> <<107, 101, 116, 101, 110, 95, 114, 111, 108>>,
      fields |-> <<"naam", "omschrijving">>],
     \* "standaard"
     [node_type |-> <<115, 116, 97, 110, 100, 97, 97, 114, 100>>,
      fields |-> <<"naam", "beheer_organisatie">>],
     \* "waarde_stroom_fase"
     [node_type |-> <<119, 97, 97, 114, 100, 101, 95, 115, 116, 114, 111, 111, 109, 95, 102, 97, 115, 101>>,
      fields |-> <<"naam", "omschrijving">>],
     \* "waarde_stroom"
     [node_type |-> <<119, 97, 97, 114, 100, 101, 95, 115, 116, 114, 111, 111, 109>>,
      fields |-> <<"name", "description">>]}

\* relation_configuration: the relationship types of the relation page with the
\* node types of their two ends; no type has properties
relation_configuration ==
    { \* "ONDERSTEUNT_BIJ": "applicatie" -> "business_capability"
     [relationship_type |-> <<79, 78, 68, 69, 82, 83, 84, 69, 85, 78, 84, 95, 66, 73, 74>>,
      node_1 |-> <<97, 112, 112, 108, 105, 99, 97, 116, 105, 101>>,
      node_2 |-> <<98, 117, 115, 105, 110, 101, 115, 115, 95, 99, 97, 112, 97, 98, 105, 108, 105, 116, 121>>],
     \* "GEBRUIKT": "keten_rol" -> "applicatie"
     [relationship_type |-> <<71, 69, 66, 82, 85, 73, 75, 84>>,
      node_1 |-> <<107, 101, 116, 101, 110, 95, 114, 111, 108>>,
      node_2 |-> <<97, 112, 112, 108, 105, 99, 97, 116, 105, 101>>],
     \* "MAAKT": "software_bedrijf" -> "applicatie"
     [relationship_type |-> <<77, 65, 65, 75, 84>>,
      node_1 |-> <<115, 111, 102, 116, 119, 97, 114, 101, 95, 98, 101, 100, 114, 105, 106, 102>>,
      node_2 |-> <<97, 112, 112, 108, 105, 99, 97, 116, 105, 101>>],
     \* "MAAKT_GEBRUIKT_VAN": "applicatie" -> "standaard"
     [relationship_type |-> <<77, 65, 65, 75, 84, 95, 71, 69, 66, 82, 85, 73, 75, 84, 95, 86, 65, 78>>,
      node_1 |-> <<97, 112, 112, 108, 105, 99, 97, 116, 105, 101>>,
      node_2 |-> <<115, 116, 97, 110, 100, 97, 97, 114, 100>>],
     \* "WORDT_GEBRUIKT_IN": "applicatie" -> "waarde_stroom_fase"
     [relationship_type |-> <<87, 79, 82, 68, 84, 95, 71, 69, 66, 82, 85, 73, 75, 84, 95, 73, 78>>,
      node_1 |-> <<97, 112, 112, 108, 105, 99, 97, 116, 105, 101>>,
      node_2 |-> <<119, 97, 97, 114, 100, 101, 95, 115, 116, 114, 111, 111, 109, 95, 102, 97, 115, 101>>],
     \* "WERKT_IN": "keten_rol" -> "waarde_stroom_fase"
     [relationship_type |-> <<87, 69, 82, 75, 84, 95, 73, 78>>,
      node_1 |-> <<107, 101, 116, 101, 110, 95, 114, 111, 108>>,
      node_2 |-> <<119, 97, 97, 114, 100, 101, 95, 115, 116, 114, 111, 111, 109, 95, 102, 97, 115, 101>>],
     \* "IS_ONDERDEEL_VAN": "waarde_stroom_fase" -> "waarde_stroom"
     [relationship_type |-> <<73, 83, 95, 79, 78, 68, 69, 82, 68, 69, 69, 76, 95, 86, 65, 78>>,
      node_1 |-> <<119, 97, 97, 114, 100, 101, 95, 115, 116, 114, 111, 111, 109, 95, 102, 97, 115, 101>>,
      node_2 |-> <<119, 97, 97, 114, 100, 101, 95, 115, 116, 114, 111, 111, 109>>],
     \* "HEEFT": "keten_rol" -> "business_capability"
     [relationship_type |-> <<72, 69, 69, 70, 84>>,
      node_1 |-> <<107, 101, 116, 101, 110, 95, 114, 111, 108>>,
      node_2 |-> <<98, 117, 115, 105, 110, 101, 115, 115, 95, 99, 97, 112, 97, 98, 105, 108, 105, 116, 121>>],
     \* "IS_NODIG_IN": "business_capability" -> "waarde_stroom_fase"
     [relationship_type |-> <<73, 83, 95, 78, 79, 68, 73, 71, 95, 73, 78>>,
      node_1 |-> <<98, 117, 115, 105, 110, 101, 115, 115, 95, 99, 97, 112, 97, 98, 105, 108, 105, 116, 121>>,
      node_2 |-> <<119, 97, 97, 114, 100, 101, 95, 115, 116, 114, 111, 111, 109, 95, 102, 97, 115, 101>>]}

\* what an operator can leave in a text field of a form
FieldInputs == {<<>>, <<97>>, <<98>>}

\* the fields of a form as a set of keys
FieldsOf(cfg) == {cfg.fields[i] : i \in 1..Len(cfg.fields)}

\* ------------------------------------------------ Streamlit's containers
\* GraphCrud instances constructed in one process
MaxDrivers == 3

\* a key of st.session_state: plain, or a prefix followed by a node type
Key(name) == <<name, <<>>>>
existing_node_(node_type) == <<"existing_node_", node_type>>

\* a dict without some of its keys
Without(state, keys) == [k \in DOMAIN state \ keys |-> state[k]]

\* A full script run forgets the value of every keyed widget it does not
\* render: the checkbox of the dialog and the node selectbox of the edit page.
script_run(state, rendered) ==
    Without(state, {k \in DOMAIN state :
                       k[1] \in {"confirm_delete", "existing_node_"}} \ rendered)

\* all.py 7-10 and edit.py 8-11: the edit target defaults to ""
init_edit_state(state) ==
    state @@ (Key("edit_node") :> <<>>) @@ (Key("edit_category") :> <<>>)

\* clear_edit_state: deletes confirm_delete, edit_node, edit_category and every
\* key that starts with existing_node_ (the keys {prefix}_... belong to form
\* widgets, whose values are the inputs of a submit and are not kept here)
clear_edit_state(state) ==
    Without(state, {k \in DOMAIN state :
                       \/ k[1] \in {"confirm_delete", "edit_node", "edit_category"}
                       \/ k[1] = "existing_node_"})

\* GraphCrud(): a new instance with a driver of its own; no page closes one
GraphCrud ==
    LET d == Cardinality(drivers) + 1
    IN  [crud |-> d, cache_resource |-> cache_resource, drivers |-> drivers \cup {d}]

\* get_crud: the instance st.cache_resource holds, constructed when it holds none
get_crud ==
    IF cache_resource # Missing
    THEN [crud |-> cache_resource.value, cache_resource |-> cache_resource,
          drivers |-> drivers]
    ELSE [crud |-> GraphCrud.crud,
          cache_resource |-> [kind |-> "cached", value |-> GraphCrud.crud],
          drivers |-> GraphCrud.drivers]

\* what a script run leaves of the instances: the one it obtained, and an
\* empty st.cache_resource when the run ended with st.cache_resource.clear()
Obtained(made, cleared) ==
    /\ Cardinality(made.drivers) <= MaxDrivers
    /\ drivers' = made.drivers
    /\ cache_resource' = IF cleared THEN Missing ELSE made.cache_resource

\* the call of the run came back without an exception
Came_back == last'.result.kind # "raise"

\* st.error in place of a call
st_error(handler) ==
    /\ last' = [op |-> handler, result |-> [kind |-> "st.error"]]
    /\ UNCHANGED <<nodes, rels, calls, sessions, environ, _driver>>

\* ----------------------------------------------------------- the pages
\* add page, lines 5-45: when every field of the form holds text, the fields
\* are handed to insert_node as they are configured and, once it came back,
\* both caches are cleared; otherwise an error is shown and nothing is called
add_submit(cfg, values) ==
    /\ session_state' = script_run(session_state, {})
    /\ dialog' = Missing
    /\ IF \A key \in FieldsOf(cfg) : values[key] # <<>>
       THEN /\ insert_node(cfg.node_type, values)
            /\ cache_data' = IF Came_back THEN Missing ELSE cache_data
            /\ Obtained(get_crud, Came_back)
       ELSE /\ last' = [op |-> "add_submit", label |-> cfg.node_type, props |-> values,
                        result |-> [kind |-> "st.error"]]
            /\ UNCHANGED <<nodes, rels, calls, sessions, environ, _driver, cache_data>>
            /\ Obtained(get_crud, FALSE)

\* all page, lines 6-16: the names of one node type are listed
all_page(cfg) ==
    /\ get_nodes_by_type(cfg.node_type)
    /\ session_state' = init_edit_state(script_run(session_state, {}))
    /\ dialog' = Missing
    /\ cache_data' = cache_data
    /\ Obtained(get_crud, FALSE)

\* all page, lines 23-26: the edit button of a listed node sets the edit target
all_page_edit(cfg) ==
    /\ get_nodes_by_type(cfg.node_type)
    /\ \E i \in DOMAIN last'.result.value :
          session_state' = (Key("edit_node") :> last'.result.value[i])
                           @@ (Key("edit_category") :> cfg.node_type)
                           @@ script_run(session_state, {})
    /\ dialog' = Missing
    /\ cache_data' = cache_data
    /\ Obtained(get_crud, FALSE)

\* delete_proceed as it opens: the dialog shows the checkbox, which is unset
\* unless a dialog dismissed since the last script run left it set
opened(state) ==
    {(Key("confirm_delete") :> v) @@ state :
        v \in {FALSE} \cup {state[k] : k \in DOMAIN state \cap {Key("confirm_delete")}}}

\* all page, lines 29-31: the delete button of a listed node opens the dialog
all_page_delete(cfg) ==
    /\ get_nodes_by_type(cfg.node_type)
    /\ \E i \in DOMAIN last'.result.value :
          dialog' = [nodes |-> cfg.node_type, keyid |-> "name",
                     name |-> last'.result.value[i]]
    /\ session_state' \in opened(init_edit_state(
                                    script_run(session_state, {Key("confirm_delete")})))
    /\ cache_data' = cache_data
    /\ Obtained(get_crud, FALSE)

\* the options of a node selectbox: what get_nodes_by_type returns
selectbox_options(node_type) ==
    sorted({nodes[i].props["name"] :
               i \in {j \in MatchLabel(_quote_label(node_type).text) :
                         Truthy(nodes[j].props, "name")}})

\* the rows read_node_properties_by_name chooses from
node_rows(node_type, name) == MatchNodes(_quote_label(node_type).text, "name", name)

\* dict.get(key, "")
get(properties, key) == IF key \in DOMAIN properties THEN properties[key] ELSE <<>>

\* edit page, lines 6-60: the form of a selected node is saved; the name field
\* is disabled and holds what was read, the other fields hold what was typed
edit_save(cfg, values) ==
    /\ \E i \in DOMAIN selectbox_options(cfg.node_type) :
        LET selected_node == selectbox_options(cfg.node_type)[i]
        IN  /\ session_state' =
                  (existing_node_(cfg.node_type) :> selected_node)
                  @@ init_edit_state(script_run(session_state, {}))
            /\ \E n \in node_rows(cfg.node_type, selected_node) :
                LET node_properties == nodes[n].props
                    updated_properties ==
                        [key \in FieldsOf(cfg) |->
                            IF key \in {"naam", "name"}
                            THEN get(node_properties, key) ELSE values[key]]
                IN  IF \A key \in FieldsOf(cfg) : updated_properties[key] # <<>>
                    THEN /\ create_node(cfg.node_type, updated_properties)
                         /\ cache_data' = IF Came_back THEN Missing ELSE cache_data
                    ELSE /\ st_error("edit_save")
                         /\ cache_data' = cache_data
    /\ dialog' = Missing
    /\ Obtained(get_crud, FALSE)

\* edit page, lines 62-65: the delete button under the form opens the dialog
\* for the text of the disabled name field
edit_delete(cfg) ==
    /\ \E i \in DOMAIN selectbox_options(cfg.node_type) :
        LET selected_node == selectbox_options(cfg.node_type)[i]
        IN  /\ read_node_properties_by_name(cfg.node_type, selected_node)
            /\ session_state' \in
                  opened((existing_node_(cfg.node_type) :> selected_node)
                         @@ init_edit_state(
                               script_run(session_state, {Key("confirm_delete")})))
    /\ \E key \in FieldsOf(cfg) \cap {"naam", "name"} :
          dialog' = [nodes |-> cfg.node_type, keyid |-> "naam",
                     name |-> get(last'.result.value, key)]
    /\ cache_data' = cache_data
    /\ Obtained(get_crud, FALSE)

\* the checkbox of the dialog is set or unset
delete_proceed_checkbox ==
    /\ dialog # Missing
    /\ session_state' = [session_state EXCEPT ![Key("confirm_delete")] = ~@]
    /\ UNCHANGED <<nodes, rels, last, calls, sessions, environ, _driver,
                   dialog, cache_data, cache_resource, drivers>>

\* the dialog is dismissed: no script runs
delete_proceed_dismiss ==
    /\ dialog # Missing
    /\ dialog' = Missing
    /\ UNCHANGED <<nodes, rels, last, calls, sessions, environ, _driver,
                   session_state, cache_data, cache_resource, drivers>>

\* mutation of delete_proceed_button: the checkbox is not looked at
delete_without_confirm ==
    /\ dialog # Missing
    /\ delete_node(dialog.nodes, dialog.name)
    /\ Obtained(get_crud, FALSE)
    /\ IF Came_back
       THEN /\ cache_data' = Missing
            /\ session_state' = init_edit_state(clear_edit_state(session_state))
            /\ dialog' = Missing
       ELSE UNCHANGED <<cache_data, session_state, dialog>>

\* delete_proceed, "Delete forever!": without the checkbox an error and
\* nothing else; with it delete_node, then the cached reads and the edit state
\* are cleared and st.rerun() runs the page again, which closes the dialog
delete_proceed_button ==
    /\ dialog # Missing
    /\ IF ~session_state[Key("confirm_delete")]
       THEN /\ st_error("delete_proceed")
            /\ UNCHANGED <<session_state, dialog, cache_data, cache_resource, drivers>>
       ELSE /\ delete_node(dialog.nodes, dialog.name)
            /\ Obtained(get_crud, FALSE)
            /\ IF Came_back
               THEN /\ cache_data' = Missing
                    /\ session_state' = init_edit_state(clear_edit_state(session_state))
                    /\ dialog' = Missing
               ELSE UNCHANGED <<cache_data, session_state, dialog>>

\* relation page, lines 5-50: a GraphCrud of its own on every run; with a node
\* selected at both ends the relationship is created, and no cache is cleared
relation_submit(cfg) ==
    /\ IF selectbox_options(cfg.node_1) # <<>> /\ selectbox_options(cfg.node_2) # <<>>
       THEN \E i \in DOMAIN selectbox_options(cfg.node_1) :
            \E j \in DOMAIN selectbox_options(cfg.node_2) :
               create_relation_by_name(cfg.node_1, selectbox_options(cfg.node_1)[i],
                                       cfg.node_2, selectbox_options(cfg.node_2)[j],
                                       cfg.relationship_type, <<>>)
       ELSE st_error("relation_submit")
    /\ session_state' = script_run(session_state, {})
    /\ dialog' = Missing
    /\ cache_data' = cache_data
    /\ Obtained(GraphCrud, FALSE)

\* load_dashboard_metrics as it is computed: three labels, all nodes, all
\* relationships ("software", "company", "role")
load_dashboard_metrics ==
    [software |-> Cardinality(MatchLabel(_quote_label(<<115, 111, 102, 116, 119, 97, 114, 101>>).text)),
     company |-> Cardinality(MatchLabel(_quote_label(<<99, 111, 109, 112, 97, 110, 121>>).text)),
     role |-> Cardinality(MatchLabel(_quote_label(<<114, 111, 108, 101>>).text)),
     nodes |-> Cardinality(DOMAIN nodes),
     rels |-> UndirectedRows(DOMAIN rels)]

\* intro page, lines 6-53: "Refresh data" clears the cached reads and runs the
\* page again; the metrics come from st.cache_data when it holds them
intro_page(refresh) ==
    LET held == IF refresh THEN Missing ELSE cache_data
        metrics == IF held # Missing THEN held.value ELSE load_dashboard_metrics
    IN  /\ last' = [op |-> "load_dashboard_metrics", hit |-> held # Missing,
                    result |-> [kind |-> "metrics", value |-> metrics]]
        /\ cache_data' = [kind |-> "cached", value |-> metrics]
        /\ session_state' = script_run(session_state, {})
        /\ dialog' = Missing
        /\ Obtained(get_crud, FALSE)
        /\ UNCHANGED <<nodes, rels, calls, sessions, environ, _driver>>

\* st.cache_data(ttl=60): the entry expires
ttl_expired ==
    /\ cache_data # Missing
    /\ cache_data' = Missing
    /\ UNCHANGED <<nodes, rels, last, calls, sessions, environ, _driver,
                   session_state, dialog, cache_resource, drivers>>

\* the add page and the all page
NextAdd ==
    \/ \E cfg \in node_configuration : \E values \in [FieldsOf(cfg) -> FieldInputs] :
          add_submit(cfg, values) /\ Within(MaxNodes)
    \/ \E cfg \in node_configuration : all_page(cfg)

SpecAdd == Init /\ [][NextAdd]_vars

\* the pages of one browser session over two node types and the relationship
\* type between them
PageRelationInputs ==
    {cfg \in relation_configuration : cfg.relationship_type = <<73, 83, 95, 79, 78, 68, 69, 82, 68, 69, 69, 76, 95, 86, 65, 78>>}
PageTypeInputs ==
    {cfg \in node_configuration :
        \E r \in PageRelationInputs : cfg.node_type \in {r.node_1, r.node_2}}
PageFieldInputs == {<<>>, <<97>>}

\* the store as a run of crud_methodes.py's example left it: empty, or with
\* one node of the first type of the relationship
SeedInputs ==
    {<<>>} \cup {(1 :> [label |-> r.node_1, props |-> [name |-> <<97>>]]) :
                    r \in PageRelationInputs}

InitPages ==
    /\ nodes \in SeedInputs
    /\ rels = <<>>
    /\ last = [op |-> "none"]
    /\ calls = [c \in Clients |-> Idle]
    /\ sessions = 0
    /\ environ = Configured
    /\ _driver = Driver(Configured)
    /\ InitStreamlit

NextPages ==
    \/ \E cfg \in PageTypeInputs : \E values \in [FieldsOf(cfg) -> PageFieldInputs] :
          add_submit(cfg, values) /\ Within(MaxNodes)
    \/ \E cfg \in PageTypeInputs : all_page(cfg)
    \/ \E cfg \in PageTypeInputs : all_page_edit(cfg)
    \/ \E cfg \in PageTypeInputs : all_page_delete(cfg)
    \/ \E cfg \in PageTypeInputs : \E values \in [FieldsOf(cfg) -> PageFieldInputs] :
          edit_save(cfg, values) /\ Within(MaxNodes)
    \/ \E cfg \in PageTypeInputs : edit_delete(cfg)
    \/ delete_proceed_checkbox
    \/ delete_proceed_dismiss
    \/ delete_proceed_button
    \/ \E cfg \in PageRelationInputs : relation_submit(cfg) /\ WithinRels(MaxRels)
    \/ \E refresh \in BOOLEAN : intro_page(refresh)
    \/ ttl_expired

SpecPages == InitPages /\ [][NextPages]_vars

\* concurrent calls of every operation
NextClients ==
    \/ UpsertSteps(ClientLabelInputs, ClientNodeInputs)
    \/ OtherSteps(ClientLabelInputs, ClientNodeInputs, ClientNameInputs,
                  ClientRelationInputs)

SpecClients == Init /\ [][NextClients]_vars

\* ------------------------------------------- the sanitizer on its own
\* 'a', '1', '_', ' ', '`' and newline
Alphabet == {97, 49, 95, 32, 96, 10}
\* every string of at most MaxLen characters of the alphabet
Strings == UNION {[1..n -> Alphabet] : n \in 0..MaxLen}

\* two raw identifiers waiting to be quoted
InitQuote ==
    /\ nodes = <<>>
    /\ rels = <<>>
    /\ last \in {[op |-> "raw", raw |-> <<s, t>>] : s \in Strings, t \in Strings}
    /\ calls = [c \in Clients |-> Idle]
    /\ sessions = 0
    /\ environ = Configured
    /\ _driver = Driver(Configured)
    /\ InitStreamlit

\* both sanitizers applied to both identifiers
Quote ==
    /\ last.op = "raw"
    /\ last' = [op |-> "quoted", raw |-> last.raw,
                label |-> <<_quote_label(last.raw[1]), _quote_label(last.raw[2])>>,
                reltype |-> <<_quote_reltype(last.raw[1]), _quote_reltype(last.raw[2])>>]
    /\ UNCHANGED <<nodes, rels, calls, sessions, environ, _driver, streamlit>>

SpecQuote == InitQuote /\ [][Quote]_vars

\* =================================================================== claims
\* The identifier pattern ^[A-Za-z_][A-Za-z0-9_]*$ read as a set of strings.
IsIdentifier(s) ==
    /\ Len(s) >= 1
    /\ s[1] \in IdentStart
    /\ \A i \in 2..Len(s) : s[i] \in IdentPart

\* s is core with whitespace (possibly none) before and after it
PaddingOf(s, core) ==
    \E before, after \in 0..Len(s) :
        /\ before + after <= Len(s)
        /\ \A i \in 1..before : s[i] \in Whitespace
        /\ \A i \in (Len(s) - after + 1)..Len(s) : s[i] \in Whitespace
        /\ core = SubSeq(s, before + 1, Len(s) - after)

\* the raw label names a label of the store
ValidLabel(raw) == \E core \in {strip(raw)} : PaddingOf(raw, core) /\ IsIdentifier(core)

\* the nodes of a store that carry the label and hold the name
Named(store, label, name) ==
    {i \in DOMAIN store :
        /\ store[i].label = label
        /\ "name" \in DOMAIN store[i].props
        /\ store[i].props["name"] = name}

\* new is old overwritten with props: keys of props replaced or added, others kept
Overwritten(old, props, new) ==
    /\ DOMAIN new = DOMAIN old \cup DOMAIN props
    /\ \A k \in DOMAIN props : new[k] = props[k]
    /\ \A k \in DOMAIN old \ DOMAIN props : new[k] = old[k]

\* the call recorded in a state returned normally with a node identity
ReturnedNode(call) == call.result.kind = "node_id"

\* ---------------------------------------------------------------------- C1
\* C1: after any sequence of completed sequential calls, no two nodes of the
\* same label hold the same name (stated for non-empty names only, so an empty
\* name shared by two nodes does not count against it).
C1_UniqueNamePerLabel ==
    \A i, j \in DOMAIN nodes :
        (/\ i # j
         /\ nodes[i].label = nodes[j].label
         /\ Truthy(nodes[i].props, "name")
         /\ Truthy(nodes[j].props, "name"))
        => nodes[i].props["name"] # nodes[j].props["name"]

\* ---------------------------------------------------------------------- C2
\* C2: create_node(label, {name: X} + p1) immediately followed by
\* create_node(label, {name: X} + p2) leaves exactly one node of label named X,
\* and that node holds the union of p1 and p2 with p2's value on shared keys
\* (stated for a non-empty X).
C2_UpsertTwiceConverges ==
    [][(/\ last.op = "create_node" /\ ReturnedNode(last)
        /\ last'.op = "create_node" /\ ReturnedNode(last')
        /\ strip(last.label) = strip(last'.label)
        /\ Truthy(last.props, "name") /\ Truthy(last'.props, "name")
        /\ last.props["name"] = last'.props["name"])
       => LET X == last'.props["name"]
              named == Named(nodes', strip(last'.label), X)
          IN  /\ Cardinality(named) = 1
              /\ \A n \in named :
                    /\ \A k \in DOMAIN last'.props :
                          k \in DOMAIN nodes'[n].props
                          /\ nodes'[n].props[k] = last'.props[k]
                    /\ \A k \in DOMAIN last.props \ DOMAIN last'.props :
                          k \in DOMAIN nodes'[n].props
                          /\ nodes'[n].props[k] = last.props[k]]_vars

\* ---------------------------------------------------------------------- C3
\* the step is a create_node call, one that passes the argument check, for a
\* name that a node of the label holds
UpsertOfHeldName ==
    /\ last'.op = "create_node"
    /\ last'.result # ValidationError
    /\ ValidLabel(last'.label)
    /\ "name" \in DOMAIN last'.props
    /\ Named(nodes, strip(last'.label), last'.props["name"]) # {}

\* no node is created, one node holding the name is overwritten with props and
\* its identity is returned
NameMatchOutcome ==
    /\ DOMAIN nodes' = DOMAIN nodes
    /\ \E m \in Named(nodes, strip(last'.label), last'.props["name"]) :
          /\ last'.result = NodeId(m)
          /\ Overwritten(nodes[m].props, last'.props, nodes'[m].props)
          /\ \A i \in DOMAIN nodes \ {m} : nodes'[i] = nodes[i]

\* C3 as stated: whenever a node of label with name N exists, create_node(label,
\* props) with props.name = N creates no node, overwrites that node's
\* properties with props and returns its identity, whatever props.emailaddress
\* is.
C3_NameMatchAnyName == [][UpsertOfHeldName => NameMatchOutcome]_vars

\* C3 as amended: the same for every non-empty name N.
C3_NameMatchPriority ==
    [][(UpsertOfHeldName /\ last'.props["name"] # <<>>) => NameMatchOutcome]_vars

\* C3 happens: the name probe hit although another node of the label holds
\* the e-mail address passed in
C3_Witness ==
    /\ last.op = "create_node"
    /\ ReturnedNode(last)
    /\ Len(last.stmts) = 2 /\ last.stmts[2].query = "update"
    /\ Truthy(last.props, "emailaddress")
    /\ \E other \in DOMAIN nodes :
          /\ other # last.result.id
          /\ nodes[other].label = nodes[last.result.id].label
          /\ "emailaddress" \in DOMAIN nodes[other].props
          /\ nodes[other].props["emailaddress"] = last.props["emailaddress"]
          /\ ~("name" \in DOMAIN nodes[other].props
               /\ nodes[other].props["name"] = last.props["name"])

\* ---------------------------------------------------------------------- C4
\* the step is an insert_node call that passes the argument check, on a valid label
InsertCall ==
    /\ last'.op = "insert_node"
    /\ Truthy(last'.props, "name")
    /\ ValidLabel(last'.label)

\* C4: insert_node never overwrites.  When a node of the label holds
\* props.name the call returns None and leaves every node and relationship
\* unchanged; on a store without the name it returns the identity of a new
\* node carrying props; hence the second of two successive inserts of a name
\* returns None and leaves exactly one node of that name, the first call's.
C4_InsertNeverOverwrites ==
    [][InsertCall =>
        LET label == strip(last'.label)
            X == last'.props["name"]
        IN  /\ Named(nodes, label, X) # {}
                => /\ last'.result = None
                   /\ nodes' = nodes
                   /\ rels' = rels
            /\ Named(nodes, label, X) = {}
                => /\ ReturnedNode(last')
                   /\ last'.result.id \notin DOMAIN nodes
                   /\ Named(nodes', label, X) = {last'.result.id}
                   /\ nodes'[last'.result.id].props = last'.props
                   /\ \A i \in DOMAIN nodes : nodes'[i] = nodes[i]
                   /\ rels' = rels
            /\ (/\ last.op = "insert_node" /\ ReturnedNode(last)
                /\ strip(last.label) = label
                /\ last.props["name"] = X)
                => /\ last'.result = None
                   /\ Named(nodes', label, X) = {last.result.id}
                   /\ nodes'[last.result.id].props = last.props]_vars

\* C4 happens: an insert was refused, the node of that name carries other
\* properties than the refused call's, and a relationship is in the store
C4_Witness ==
    /\ last.op = "insert_node"
    /\ last.result = None
    /\ rels # <<>>
    /\ \E n \in Named(nodes, strip(last.label), last.props["name"]) :
          nodes[n].props # last.props

\* ---------------------------------------------------------------------- C5
\* the dict holds the key with a non-empty string
NonEmpty(props, key) == key \in DOMAIN props /\ Len(props[key]) > 0

\* the call breaks the precondition of its operation
PreconditionViolated(call) ==
    \/ call.op = "create_node"
        /\ ~NonEmpty(call.props, "name") /\ ~NonEmpty(call.props, "emailaddress")
    \/ call.op = "insert_node" /\ ~NonEmpty(call.props, "name")
    \/ call.op = "delete_node" /\ Len(call.name) = 0

\* the call did nothing: no statement was executed and the store is as before
NoEffect ==
    /\ last'.stmts = <<>>
    /\ nodes' = nodes
    /\ rels' = rels

\* C5: create_node with neither a non-empty name nor a non-empty
\* emailaddress, insert_node without a non-empty name (even with an
\* emailaddress) and delete_node with an empty name fail with ValidationError
\* before a session is opened or a statement executed; the store is unchanged.
C5_PreconditionRejected ==
    [][PreconditionViolated(last') =>
        /\ last'.result = ValidationError
        /\ last'.opened = 0
        /\ NoEffect]_vars

\* C5 happens: an insert_node carrying an emailaddress but an empty name was
\* rejected on a store that holds nodes
C5_Witness ==
    /\ last.op = "insert_node"
    /\ NonEmpty(last.props, "emailaddress")
    /\ "name" \in DOMAIN last.props
    /\ last.result = ValidationError
    /\ nodes # <<>>

\* ---------------------------------------------------------------------- C6
\* the labels and relationship types a call passes
IdentifiersOf(call) ==
    IF call.op = "create_relation_by_name"
    THEN {call.label, call.end_label, call.rel_type}
    ELSE {call.label}

\* one of the call's identifiers is, after trimming, empty or off the pattern
BadIdentifier(call) == \E raw \in IdentifiersOf(call) : ~ValidLabel(raw)

\* every identifier text in the statements of the call is one of the call's
\* identifiers, trimmed, on the pattern and between back-ticks
Sanitized(call) ==
    \A k \in 1..Len(call.stmts) : \A m \in 1..Len(call.stmts[k].idents) :
        LET text == call.stmts[k].idents[m]
            core == SubSeq(text, 2, Len(text) - 1)
        IN  /\ Len(text) >= 3
            /\ text[1] = 96 /\ text[Len(text)] = 96
            /\ IsIdentifier(core)
            /\ \E raw \in IdentifiersOf(call) : PaddingOf(raw, core)

\* C6 as stated: in each of the seven operations an identifier that after
\* trimming is empty or off the pattern makes the call fail with
\* InvalidIdentifier before any statement, the store unchanged; no statement is
\* executed with an unsanitized label or relationship type.
C6_InvalidIdentifierAlways ==
    [][/\ BadIdentifier(last') => (last'.result = InvalidIdentifier /\ NoEffect)
       /\ Sanitized(last')]_vars

\* C6 as amended: the same, except that a call which also breaks its
\* operation's precondition fails with ValidationError, the argument check
\* coming first; either way no statement is executed and the store is unchanged.
C6_SanitizerChokePoint ==
    [][/\ BadIdentifier(last') =>
            /\ last'.result =
                 IF PreconditionViolated(last') THEN ValidationError ELSE InvalidIdentifier
            /\ NoEffect
       /\ Sanitized(last')]_vars

\* C6 happens: create_relation_by_name with two good labels was refused for
\* its relationship type, on a store that holds nodes
C6_Witness ==
    /\ last.op = "create_relation_by_name"
    /\ last.result = InvalidIdentifier
    /\ ValidLabel(last.label) /\ ValidLabel(last.end_label)
    /\ ~ValidLabel(last.rel_type)
    /\ nodes # <<>>

\* ---------------------------------------------------------------------- C7
\* the identifiers that s is a whitespace-padded form of (at most one)
Cores(s) ==
    {core \in {SubSeq(s, i, j) : i \in 1..Len(s), j \in 1..Len(s)} :
        IsIdentifier(core) /\ PaddingOf(s, core)}

\* what one sanitizer made of the two raw strings: total and injective on the
\* identifiers
TotalInjective(raw, quoted) ==
    /\ \A k \in 1..2 : IsIdentifier(raw[k]) =>
          /\ ~quoted[k].raises
          /\ quoted[k].text = Backtick \o raw[k] \o Backtick
    /\ (IsIdentifier(raw[1]) /\ IsIdentifier(raw[2]) /\ raw[1] # raw[2])
          => quoted[1].text # quoted[2].text

\* C7 as stated: _quote_label and _quote_reltype are total and injective on the
\* strings matching the pattern and fail on every string that violates it,
\* a string with leading or trailing space included.
C7_FailsOnEveryViolation ==
    last.op = "quoted" =>
        \A quoted \in {last.label, last.reltype} :
            /\ TotalInjective(last.raw, quoted)
            /\ \A k \in 1..2 : ~IsIdentifier(last.raw[k]) => quoted[k].raises

\* C7 as amended: total and injective on the strings matching the pattern;
\* failing exactly on the strings that, with leading and trailing whitespace
\* removed, are empty or violate the pattern; an identifier padded with
\* whitespace is accepted and quoted as the identifier.
C7_TotalInjectiveAfterTrim ==
    last.op = "quoted" =>
        \A quoted \in {last.label, last.reltype} :
            /\ TotalInjective(last.raw, quoted)
            /\ \A k \in 1..2 :
                  /\ quoted[k].raises <=> Cores(last.raw[k]) = {}
                  /\ \A core \in Cores(last.raw[k]) :
                        quoted[k].text = Backtick \o core \o Backtick

\* C7 happens: an identifier and a padded form of it were both quoted, to the
\* same text
C7_Witness ==
    /\ last.op = "quoted"
    /\ IsIdentifier(last.raw[1])
    /\ ~IsIdentifier(last.raw[2])
    /\ ~last.label[2].raises /\ ~last.reltype[2].raises
    /\ last.label[1].text = last.label[2].text

\* ---------------------------------------------------------------------- C8
\* the list returned holds exactly the given names, each once, ascending
ListedExactly(names) ==
    LET value == last.result.value
    IN  /\ last.result.kind = "list"
        /\ {value[k] : k \in 1..Len(value)} = names
        /\ \A k \in 1..(Len(value) - 1) : StrLess(value[k], value[k + 1])

\* the nodes of the label asked for in the call just completed
NodesAsked == {i \in DOMAIN nodes : nodes[i].label = strip(last.label)}

\* C8 as stated: get_nodes_by_type(label) returns exactly the distinct
\* non-null names held by nodes of the label, in strictly ascending order, and
\* the empty list when the label has no node.
C8_AllNonNullNames ==
    (last.op = "get_nodes_by_type" /\ ValidLabel(last.label)) =>
        ListedExactly({nodes[i].props["name"] :
                          i \in {j \in NodesAsked : "name" \in DOMAIN nodes[j].props}})

\* C8 as amended: the same for the distinct non-empty names; a node whose
\* name is the empty string is left out like one without name.
C8_AllNonEmptyNames ==
    (last.op = "get_nodes_by_type" /\ ValidLabel(last.label)) =>
        ListedExactly({nodes[i].props["name"] :
                          i \in {j \in NodesAsked : NonEmpty(nodes[j].props, "name")}})

\* C8 happens: two names were listed
C8_Witness ==
    /\ last.op = "get_nodes_by_type"
    /\ last.result.kind = "list"
    /\ Len(last.result.value) = 2

\* ---------------------------------------------------------------------- C9
\* C9: read_node_properties_by_name(label, name) returns None when no node of
\* label has the name and otherwise the property map of a node of label with
\* the name; right after an insert_node or create_node that returned, with a
\* dict p holding the (non-empty) name N, the read of (label, N) returns a map
\* holding every key of p with p's value.
C9_ReadRoundTrip ==
    [][(last'.op = "read_node_properties_by_name" /\ ValidLabel(last'.label)) =>
        LET held == Named(nodes, strip(last'.label), last'.name)
        IN  /\ IF held = {}
               THEN last'.result = None
               ELSE /\ last'.result.kind = "props"
                    /\ \E n \in held : last'.result.value = nodes[n].props
            /\ (/\ last.op \in {"insert_node", "create_node"}
                /\ ReturnedNode(last)
                /\ NonEmpty(last.props, "name")
                /\ strip(last.label) = strip(last'.label)
                /\ last.props["name"] = last'.name)
                => /\ last'.result.kind = "props"
                   /\ \A k \in DOMAIN last.props :
                         /\ k \in DOMAIN last'.result.value
                         /\ last'.result.value[k] = last.props[k]]_vars

\* ---------------------------------------------------------------------- C10
\* C10: delete_node(label, name) with a valid label and a non-empty name never
\* raises; it reports success exactly when a node of label held the name
\* before the call; afterwards no node of label holds the name, and nodes with
\* another label or another name are unchanged; on a name no node holds it
\* reports failure and changes nothing.
C10_DeleteSemantics ==
    [][(last'.op = "delete_node" /\ ValidLabel(last'.label) /\ Len(last'.name) > 0) =>
        LET label == strip(last'.label)
            held == Named(nodes, label, last'.name)
        IN  /\ last'.result = [kind |-> "bool", value |-> held # {}]
            /\ Named(nodes', label, last'.name) = {}
            /\ DOMAIN nodes' = DOMAIN nodes \ held
            /\ \A i \in DOMAIN nodes \ held : nodes'[i] = nodes[i]
            /\ held = {} => (nodes' = nodes /\ rels' = rels)]_vars

\* C10 happens: a delete reported success and a node is left in the store
C10_Witness ==
    /\ last.op = "delete_node"
    /\ last.result = [kind |-> "bool", value |-> TRUE]
    /\ nodes # <<>>

\* ---------------------------------------------------------------------- C11
\* both endpoints of every stored relationship are nodes of the store
NoDangling ==
    \A r \in DOMAIN rels : rels[r].from \in DOMAIN nodes /\ rels[r].to \in DOMAIN nodes

\* the relationships of a store that touch one of the nodes: outgoing, incoming, loops
Touching(ids) == {r \in DOMAIN rels : rels[r].from \in ids \/ rels[r].to \in ids}

StartNodes(store, call) == Named(store, strip(call.label), call.name)
EndNodes(store, call) == Named(store, strip(call.end_label), call.end_name)

\* the step is a create_relation_by_name call with an endpoint missing
MissingEndpoint ==
    /\ last'.op = "create_relation_by_name"
    /\ StartNodes(nodes, last') = {} \/ EndNodes(nodes, last') = {}

\* None is returned and nothing has changed
SignaledNoOp ==
    /\ last'.result = None
    /\ nodes' = nodes
    /\ rels' = rels

\* C12 as stated: create_relation_by_name with a missing endpoint returns None
\* without raising, creates no relationship and changes no node and no
\* relationship.
C12_MissingEndpointAlways == [][MissingEndpoint => SignaledNoOp]_vars

\* C12 as amended: the same when both labels and the relationship type pass
\* the sanitizer (otherwise the call raises InvalidIdentifier).
C12_MissingEndpointNoOp ==
    [][(/\ MissingEndpoint
        /\ \A raw \in IdentifiersOf(last') : ValidLabel(raw)) => SignaledNoOp]_vars

\* C12 happens: the start node exists, the end node does not, None came back
\* and the store holds a relationship
C12_Witness ==
    /\ last.op = "create_relation_by_name"
    /\ last.result = None
    /\ StartNodes(nodes, last) # {}
    /\ EndNodes(nodes, last) = {}
    /\ rels # <<>>

\* the relationships of the call's type from one of its start nodes to one
\* of its end nodes
EdgesOf(store, edges, call) ==
    {x \in DOMAIN edges : /\ edges[x].type = strip(call.rel_type)
                          /\ edges[x].from \in StartNodes(store, call)
                          /\ edges[x].to \in EndNodes(store, call)}
SameArguments(c1, c2) ==
    /\ c1.op = "create_relation_by_name" /\ c2.op = "create_relation_by_name"
    /\ c1.label = c2.label /\ c1.name = c2.name
    /\ c1.end_label = c2.end_label /\ c1.end_name = c2.end_name
    /\ c1.rel_type = c2.rel_type
ReturnedRel(call) == "id" \in DOMAIN call.result /\ call.result.kind = "rel_id"

\* C13: create_relation_by_name is idempotent: a second call with the same
\* start, end and type, made when the first returned a relationship, leaves
\* exactly one relationship of that type between the two nodes, returns the
\* id the first call returned, and every key of its property map carries its
\* value.
C13_CreateRelationshipIdempotent ==
    [][(SameArguments(last, last') /\ ReturnedRel(last)) =>
          /\ Cardinality(EdgesOf(nodes', rels', last')) = 1
          /\ last'.result = last.result
          /\ \A x \in EdgesOf(nodes', rels', last') :
                \A k \in DOMAIN last'.props :
                   k \in DOMAIN rels'[x].props /\ rels'[x].props[k] = last'.props[k]]_vars

ReturnedInt(call) == "value" \in DOMAIN call.result /\ call.result.kind = "int"
NodesOfLabel(store, label) == {i \in DOMAIN store : store[i].label = strip(label)}

\* C14: count_nodes(label) returns the number of nodes of the label in the
\* store and total_nodes() the number of all nodes, after any sequence of
\* insert_node, create_node, delete_node and clear_database calls; so the
\* count is 3 after three distinct names were inserted under a label and 2
\* after one of them was deleted.
C14_NodeCounts ==
    [][/\ (last'.op = "count_nodes" /\ ReturnedInt(last')) =>
              last'.result.value = Cardinality(NodesOfLabel(nodes', last'.label))
       /\ last'.op = "total_nodes" =>
              /\ ReturnedInt(last')
              /\ last'.result.value = Cardinality(DOMAIN nodes')]_vars

\* C14 happens: three distinct names stand under the label counted, next to
\* no node of another label, and 3 came back
C14_Witness ==
    /\ last.op = "count_nodes"
    /\ last.result = [kind |-> "int", value |-> 3]
    /\ \A i, j \in DOMAIN nodes : nodes[i].props.name = nodes[j].props.name => i = j

\* C15: total_relationships() returns the number of relationships stored,
\* each counted once, and count_relationships(type) the number of stored
\* relationships of that type, after any sequence of create_relation_by_name
\* and delete_node calls.
C15_RelationshipCounts ==
    [][/\ last'.op = "total_relationships" =>
              last'.result = [kind |-> "int", value |-> Cardinality(DOMAIN rels')]
       /\ (last'.op = "count_relationships" /\ ReturnedInt(last')) =>
              last'.result.value =
                 Cardinality({x \in DOMAIN rels' : rels'[x].type = strip(last'.rel_type)})]_vars

\* the count made last for a label of the list failed: the label is no
\* identifier, or the store failed at that position
LastCountFailed(call, label) ==
    \/ ~ValidLabel(label)
    \/ \E i \in 1..Len(call.labels) :
          /\ call.labels[i] = label
          /\ i \in call.failures
          /\ \A j \in 1..Len(call.labels) : call.labels[j] = label => j <= i

\* C16: counts_by_labels(labels) never raises and never ends the batch early:
\* its result maps every label of the list to an integer, the number of
\* nodes of that label when its count succeeds and 0 when it fails, whatever
\* happens to the other labels; the store is left unchanged.
C16_CountsByLabels ==
    [][last'.op = "counts_by_labels" =>
          /\ last'.result.kind = "dict"
          /\ DOMAIN last'.result.value = {last'.labels[i] : i \in 1..Len(last'.labels)}
          /\ \A label \in DOMAIN last'.result.value :
                last'.result.value[label] =
                   IF LastCountFailed(last', label)
                   THEN 0
                   ELSE Cardinality(NodesOfLabel(nodes', label))
          /\ nodes' = nodes /\ rels' = rels]_vars

\* C16 happens: the first label of the list fails, the second is counted
\* and has nodes
C16_Witness ==
    /\ last.op = "counts_by_labels"
    /\ Len(last.labels) = 2
    /\ LastCountFailed(last, last.labels[1])
    /\ last.result.value[last.labels[1]] = 0
    /\ last.result.value[last.labels[2]] > 0

\* the round trip succeeded and yielded 1
YieldsOne(res) == res = [kind |-> "row", row |-> [ok |-> 1]]

\* C17: is_alive() never raises: it returns a boolean, True only when the
\* round trip succeeded and yielded 1 and False on every failure (session,
\* transport, no row, another row), and leaves the store as it was.
C17_IsAliveTotal ==
    [][last'.op = "is_alive" =>
          /\ last'.result.kind = "bool"
          /\ last'.result.value = YieldsOne(last'.res)
          /\ nodes' = nodes /\ rels' = rels]_vars

\* C17 happens: the round trip brought a row that does not hold 1, False
\* came back and the store holds a node
C17_Witness ==
    /\ last.op = "is_alive"
    /\ last.res.kind = "row"
    /\ last.result = [kind |-> "bool", value |-> FALSE]
    /\ nodes # <<>>

\* one of endpoint, username and password is absent or empty
Unconfigured(env) == \E k \in Settings : k \notin DOMAIN env \/ env[k] = <<>>
ConfigError(result) == "error" \in DOMAIN result /\ result.error = "ValueError"

\* C18: construction fails with ConfigError (the code's ValueError) whenever
\* endpoint, username or password is absent or empty, and then no driver is
\* created; no operation runs against a manager whose construction failed.
C18_FailFast ==
    /\ [](Unconfigured(environ) =>
             /\ _driver = NoDriver
             /\ last.op \in {"none", "__init__"}
             /\ nodes = <<>>)
    /\ [][last'.op = "__init__" =>
             (ConfigError(last'.result) <=> Unconfigured(environ))]_vars

\* C18 happens: a setting is set to the empty string, the constructor raised
\* and there is no driver
C18_Witness ==
    /\ last.op = "__init__"
    /\ ConfigError(last.result)
    /\ \A k \in Settings : k \in DOMAIN environ
    /\ _driver = NoDriver

\* the clients with an operation in progress
InProgress == {c \in Clients : calls[c] # Idle}

\* C19: every operation releases the session it acquired on every exit path
\* (return, None, InvalidIdentifier after acquisition, store failure): the
\* sessions open are those of the operations in progress, so none is open
\* when no operation is in progress.
C19_SessionsReleased ==
    /\ sessions = Cardinality(InProgress)
    /\ InProgress = {} => sessions = 0

\* C19 happens: an operation raised InvalidIdentifier inside its with-block
\* over a non-empty store, no operation is in progress and no session is open
C19_Witness ==
    /\ last.op # "none"
    /\ last.result = InvalidIdentifier
    /\ nodes # <<>>
    /\ InProgress = {}
    /\ sessions = 0

\* the nodes of the call's label that hold the value the call merges on: its
\* e-mail address when it has one, otherwise its name
HoldingMergeValue(store, call) ==
    LET key == IF NonEmpty(call.props, "emailaddress") THEN "emailaddress" ELSE "name"
    IN  {i \in DOMAIN store : /\ store[i].label = strip(call.label)
                             /\ key \in DOMAIN store[i].props
                             /\ store[i].props[key] = call.props[key]}

\* client c completes the write of a create_node call whose probe found no
\* node of its name, while a node of that name has appeared since
WriteInWindow(c) ==
    /\ calls[c] # Idle /\ calls[c].pc = "merge" /\ calls'[c] = Idle
    /\ ReturnedNode(last')
    /\ NonEmpty(calls[c].call.props, "name")
    /\ Named(nodes, strip(calls[c].call.label), calls[c].call.props.name) # {}

\* C20: the race window of create_node is open: probe and write are two
\* statements, and the write does not look for the name again. A call that
\* missed the probe creates a node of its name even when a concurrent call
\* has created one since, unless a node holds its e-mail address; the store
\* then holds two nodes with the same label and name.
C20_UpsertRaceWindow ==
    [][\A c \in Clients :
          (WriteInWindow(c) /\ HoldingMergeValue(nodes, calls[c].call) = {}) =>
             /\ last'.result.id \notin DOMAIN nodes
             /\ Cardinality(Named(nodes', strip(last'.label), last'.props.name)) >= 2]_vars

\* C20 happens: both concurrent calls for the new name have returned, each
\* with a node of its own, and two nodes hold the same label and name
C20_Witness ==
    /\ InProgress = {}
    /\ last.op = "create_node" /\ ReturnedNode(last)
    /\ \E i, j \in DOMAIN nodes :
          /\ i # j
          /\ last.result.id = j
          /\ nodes[i].label = nodes[j].label
          /\ NonEmpty(nodes[i].props, "name")
          /\ "name" \in DOMAIN nodes[j].props
          /\ nodes[i].props.name = nodes[j].props.name
          /\ nodes[j].props.name = last.props.name

\* ---------------------------------------------------------------------- C21
\* C21: one create_node call creates at most one node and changes the
\* properties of at most one node that existed, the one whose id it returns;
\* every other node and every relationship is left as it was, also when
\* several nodes of the label hold the e-mail address the call merges on.
C21_UpsertFrame ==
    [][(last'.op = "create_node" /\ ReturnedNode(last')) =>
          /\ DOMAIN nodes \subseteq DOMAIN nodes'
          /\ Cardinality(DOMAIN nodes' \ DOMAIN nodes) <= 1
          /\ \A i \in DOMAIN nodes : i # last'.result.id => nodes'[i] = nodes[i]
          /\ rels' = rels]_vars

\* ---------------------------------------------------------------------- C22
\* client c completes the CREATE of an insert_node call whose probe found no
\* node of its name, while a node of that name has appeared since
CreateInWindow(c) ==
    /\ calls[c] # Idle /\ calls[c].pc = "create" /\ calls'[c] = Idle
    /\ last'.op = "insert_node" /\ last'.result # StoreFailure
    /\ Named(nodes, strip(calls[c].call.label), calls[c].call.props.name) # {}

\* C22: probe and CREATE of insert_node are two statements with nothing held
\* between them: a call that passed the probe creates its node and returns
\* its id even when a concurrent call has created a node of that label and
\* name since, and the store then holds two nodes of that label and name.
C22_InsertRaceWindow ==
    [][\A c \in Clients :
          CreateInWindow(c) =>
             /\ ReturnedNode(last')
             /\ last'.result.id \notin DOMAIN nodes
             /\ last'.result.id \in DOMAIN nodes'
             /\ Cardinality(Named(nodes', strip(last'.label), last'.props.name)) >= 2]_vars

\* C22 happens: both concurrent insert_node calls for the new name have
\* returned, the last one with the id of its node, and two nodes hold the
\* same label and name
C22_Witness ==
    /\ InProgress = {}
    /\ last.op = "insert_node" /\ ReturnedNode(last)
    /\ \E i, j \in DOMAIN nodes :
          /\ i # j
          /\ last.result.id = j
          /\ nodes[i].label = nodes[j].label
          /\ nodes[i].props.name = nodes[j].props.name
          /\ nodes[j].props.name = last.props.name

\* ---------------------------------------------------------------------- C23
\* C23: create_relation_by_name matches one node per endpoint: one call adds
\* at most one relationship to the store and changes the properties of at
\* most one relationship, also when several nodes share the start or the
\* end label and name; it removes none and leaves the nodes alone.
C23_OneRelationshipPerCall ==
    [][last'.op = "create_relation_by_name" =>
          /\ DOMAIN rels \subseteq DOMAIN rels'
          /\ Cardinality(DOMAIN rels' \ DOMAIN rels) <= 1
          /\ Cardinality({x \in DOMAIN rels : rels'[x] # rels[x]}) <= 1
          /\ nodes' = nodes]_vars

\* ---------------------------------------------------------------------- C24
\* the call has no name to probe for, or no node of its label holds its name
ProbeMisses(store, call) ==
    \/ ~NonEmpty(call.props, "name")
    \/ Named(store, strip(call.label), call.props.name) = {}

Applied(props, node) ==
    \A k \in DOMAIN props : k \in DOMAIN node.props /\ node.props[k] = props[k]

\* C25: whenever create_node returns, it returns the id of a node that is in
\* the store at that moment with the call's properties applied, also when a
\* delete_node of the same label and name ran between its probe and its
\* update; and it raises nothing but ValidationError, InvalidIdentifier or
\* a failure of the store.
C25_UpsertReturnsLiveNode ==
    [][\A c \in Clients :
          (/\ calls[c] # Idle /\ calls[c].call.op = "create_node"
           /\ calls'[c] = Idle) =>
             \/ last'.result \in {ValidationError, InvalidIdentifier, StoreFailure}
             \/ /\ ReturnedNode(last')
                /\ last'.result.id \in DOMAIN nodes'
                /\ Applied(last'.props, nodes'[last'.result.id])]_vars

\* ---------------------------------------------------------------------- C26
\* the call carries the form of a configured node type, every field filled
FilledForm(call) ==
    \E cfg \in node_configuration :
       /\ call.label = cfg.node_type
       /\ DOMAIN call.props = {cfg.fields[i] : i \in 1..Len(cfg.fields)}
       /\ \A key \in DOMAIN call.props : Len(call.props[key]) > 0

\* C26: for every configured node type, the add form submitted with all its
\* fields filled hands insert_node a property map with a non-empty name: the
\* call ends in a new node or in None, never in ValidationError, and a node
\* so inserted is among the names listed for its type.
C26_AddFormInserts ==
    [][(last'.op = "insert_node" /\ FilledForm(last')) =>
          /\ NonEmpty(last'.props, "name")
          /\ last'.result # ValidationError
          /\ ReturnedNode(last') =>
                Named(nodes', last'.label, last'.props.name) # {}]_vars

\* ---------------------------------------------------------------------- C27
\* some get_nodes_by_type call lists the name of node i
ListedByName(i) ==
    ENABLED (/\ get_nodes_by_type(nodes[i].label)
             /\ "name" \in DOMAIN nodes[i].props
             /\ \E k \in 1..Len(last'.result.value) :
                   last'.result.value[k] = nodes[i].props.name)

\* some delete_node call removes node i
RemovableByName(i) ==
    \E name \in NameInputs :
       ENABLED (delete_node(nodes[i].label, name) /\ i \notin DOMAIN nodes')

\* C27: every node create_node or insert_node has created can be listed and
\* removed by name: some get_nodes_by_type result holds its name and some
\* delete_node call removes it, so delete_node calls can empty every label;
\* this includes nodes created with only an e-mail address or an empty name.
C27_ListedAndRemovable ==
    \A i \in DOMAIN nodes : ListedByName(i) /\ RemovableByName(i)

\* ------------------------------------------------------------------ C28
\* the confirm checkbox of the open dialog is set
ConfirmSet ==
    /\ dialog # Missing
    /\ Key("confirm_delete") \in DOMAIN session_state
    /\ session_state[Key("confirm_delete")] = TRUE

\* this step is a call of delete_node
DeleteCalled ==
    /\ last'.op = "delete_node"
    /\ <<nodes, rels, last>>' # <<nodes, rels, last>>

\* a key of the edit state is gone from st.session_state or holds ""
ClearedKey(state, key) == key \in DOMAIN state => state[key] = <<>>

\* C28: in the pages delete_node is called only from the open dialog with its
\* checkbox set, for the node type and the name the dialog was opened for;
\* while the checkbox is not set no step takes a node or a relationship out of
\* the store, and pressing the final button then calls nothing; after a
\* delete_node that was confirmed and came back the dialog is closed, the
\* confirm flag is gone and the edit target is empty.
C28_DeleteNeedsConfirmation ==
    [][/\ DeleteCalled =>
            /\ ConfirmSet
            /\ last'.label = dialog.nodes
            /\ last'.name = dialog.name
       /\ ~ConfirmSet =>
            /\ DOMAIN nodes \subseteq DOMAIN nodes'
            /\ DOMAIN rels \subseteq DOMAIN rels'
            /\ last'.op = "delete_proceed" => nodes' = nodes /\ rels' = rels
       /\ (DeleteCalled /\ last'.result.kind # "raise") =>
            /\ dialog' = Missing
            /\ Key("confirm_delete") \notin DOMAIN session_state'
            /\ ClearedKey(session_state', Key("edit_node"))
            /\ ClearedKey(session_state', Key("edit_category"))]_vars

\* C28 witness: a confirmed delete_node has just removed a node; the dialog is
\* closed and the confirm flag is gone
C28_Witness ==
    /\ last.op = "delete_node"
    /\ last.result = [kind |-> "bool", value |-> TRUE]
    /\ dialog = Missing
    /\ Key("confirm_delete") \notin DOMAIN session_state
    /\ ~\E i \in DOMAIN nodes : /\ nodes[i].label = last.label
                                /\ Truthy(nodes[i].props, "name")
                                /\ nodes[i].props["name"] = last.name

\* ------------------------------------------------------------------ C29
\* the calls of the pages that write to the store
MutatingCalls == {"insert_node", "create_node", "delete_node", "create_relation_by_name"}

\* this step is a writing call that came back
MutationReturned ==
    /\ last'.op \in MutatingCalls
    /\ <<nodes, rels, last>>' # <<nodes, rels, last>>
    /\ last'.result.kind # "raise"

\* C29: every writing call a page makes is followed within the same script
\* run by st.cache_data.clear(), so that st.cache_data holds nothing computed
\* before the call when the next page is rendered, and the metrics the intro
\* page shows are those of the store.
C29_MutationInvalidatesCache ==
    [][/\ MutationReturned => cache_data' = Missing
       /\ last'.op = "load_dashboard_metrics" =>
             /\ last'.result.value.nodes = Cardinality(DOMAIN nodes)
             /\ last'.result.value.rels = UndirectedRows(DOMAIN rels)]_vars

\* ------------------------------------------------------------------ C30
\* C30: over any sequence of page runs at most one GraphCrud is constructed,
\* and it is the instance st.cache_resource hands to every page.
C30_OneConnectionManager ==
    /\ Cardinality(drivers) <= 1
    /\ cache_resource # Missing => drivers = {cache_resource.value}

====
